---- MODULE Spec2Model ----
(***************************************************************************)
(* A model of the CBUS node core (src/src/CBUS.cpp, src/src/CBUS.h):       *)
(*   - CBUSbase::process and CBUSbase::process_single_message, the frame   *)
(*     dispatcher, with CAN id self-enumeration and the SLiM/FLiM mode     *)
(*     machine;                                                            *)
(*   - circular_buffer2, the ring behind the consume-own-events path.      *)
(*                                                                         *)
(* The dispatcher is single threaded.  One call of process() is the run of *)
(* steps ProcessBegin, ProcessFrame*, ProcessEnd; pc and mcount hold the   *)
(* position inside the call.  The clock (millis), the switch and the       *)
(* frames on the bus are the environment.                                  *)
(***************************************************************************)
EXTENDS Integers, Sequences, FiniteSets, TLC

VARIABLES
    \* CBUSConfig (module_config), the persisted configuration
    nodeNum, CANID, FLiM,
    \* the event table, its hash table and the node variables that
    \* module_config keeps
    eeprom,
    \* CBUSbase members
    bModeChanging, bCANenum, bLearn, enumeration_required,
    timeOutTimer, CANenumTime, enum_responses, UI, mparams,
    \* the two event handlers: registered (not NULL) or not
    eventhandler, eventhandlerex,
    \* the mode last shown by indicateMode on the two LEDs
    ledMode,
    \* position inside process(): pc, the argument and the loop counter
    pc, num_messages, mcount,
    \* environment: millis()
    now,
    \* observation: the frames handed to sendMessage by the last step, the
    \* CAN id committed by checkCANenum in the last step, the peers whose
    \* responses were stored since CANenumeration last ran, and whether
    \* CANenumeration has run since construction, and whether the last step
    \* ended a mode change by the 30 second timeout
    out, committed, heard, started, timedOut,
    \* observation: the calls of the event handlers made by the last step
    called,
    \* circular_buffer2 members
    head, tail, capacity, size, hwm, puts, gets, overflows, full, buffer,
    \* observation of the ring: what the last get/peek returned, the frames
    \* put so far that a FIFO would still hold, the largest size seen
    got, fifo, maxsize,
    \* the consume-own-events object registered (coe_obj != NULL), and the
    \* frames the driver holds for available() and getNextMessage(), oldest
    \* first
    coe_obj, rxq

cfgVars  == <<nodeNum, CANID, FLiM>>
storeVars == <<eeprom>>
baseVars == <<bModeChanging, bCANenum, bLearn, enumeration_required,
              timeOutTimer, CANenumTime, enum_responses, UI, mparams,
              eventhandler, eventhandlerex, ledMode>>
ctlVars  == <<pc, num_messages, mcount, now>>
obsVars  == <<out, committed, heard, started, timedOut, called>>
cbusVars == <<cfgVars, storeVars, baseVars, ctlVars, obsVars>>
ringVars == <<head, tail, capacity, size, hwm, puts, gets, overflows, full,
              buffer, got, fifo, maxsize>>
srcVars  == <<coe_obj, rxq>>
\* the two places where process finds its frames
bufVars  == <<ringVars, srcVars>>
vars     == <<cbusVars, bufVars>>

----------------------------------------------------------------------------
\* Program constants

SW_TR_HOLD == 6000
DEFAULT_PRIORITY == 11
MODE_SLIM == 0
MODE_FLIM == 1
MODE_CHANGING == 2
ENUM_WINDOW == 100
MODE_TIMEOUT == 30000
NUM_ENUM_BYTES == 16

\* opcodes (cbusdefs.h), by the case label or statement that uses them
OPC_ACON  == 144
OPC_SNN   == 66
OPC_RQNN  == 80
OPC_NNREL == 81
OPC_NNACK == 82
OPC_NNLRN == 83
OPC_NNULN == 84
OPC_ENUM  == 93
OPC_CMDERR == 111
OPC_CANID == 117
OPC_WRACK == 89
OPC_NVRD  == 113
OPC_RQNPN == 115
OPC_EVULN == 149
OPC_NVSET == 150
OPC_NVANS == 151
OPC_PARAN == 155
OPC_REVAL == 156
OPC_NEVAL == 181
OPC_EVLRN == 210
OPC_ACOF  == 145
OPC_ARON  == 147
OPC_AROF  == 148
OPC_ASON  == 152
OPC_ASOF  == 153
OPC_ACON1 == 176
OPC_ACOF1 == 177
OPC_ASON1 == 184
OPC_ASOF1 == 185
OPC_ACON2 == 208
OPC_ACOF2 == 209
OPC_ASON2 == 216
OPC_ASOF2 == 217
OPC_ACON3 == 240
OPC_ACOF3 == 241
OPC_ASON3 == 248
OPC_ASOF3 == 249
OPC_QNN   == 13
OPC_RQNP  == 16
OPC_RQMN  == 17
OPC_NNCLR == 85
OPC_NNEVN == 86
OPC_NERD  == 87
OPC_RQEVN == 88
OPC_EVNLF == 112
OPC_NUMEV == 116
OPC_PNN   == 182
OPC_NAME  == 226
OPC_PARAMS == 239
OPC_ENRSP == 242

\* no mode shown yet, no CAN id committed in this step
NoMode == -1
NoCommit == -1

----------------------------------------------------------------------------
\* Bounds of the model

\* process(num_messages) is called with num_messages in 0 .. MaxMessages
MaxMessages == 1
\* in EnumSpec any subset of the peers 1 .. MaxPeer may answer, and beyond
\* MaxPeer the answering peers are consecutive
MaxPeer == 5
\* a ring is built with a capacity in 1 .. MaxCapacity and takes MaxPuts puts
MaxCapacity == 4
MaxPuts == 6
\* the event table has EE_MAX_EVENTS entries, and there are EE_NUM_NVS node
\* variables
EE_MAX_EVENTS == 2
EE_NUM_NVS == 2

----------------------------------------------------------------------------
\* circular_buffer2

\* CBUScoe's default number of items
COE_NUM_ITEMS == 4

\* the k-th frame put is frame k; slot content 0 is memory never written
NoFrame == 0

\* circular_buffer2::circular_buffer2(num_items)
circular_buffer2(num_items) ==
    /\ head = 0
    /\ tail = 0
    /\ hwm = 0
    /\ capacity = num_items
    /\ size = 0
    /\ puts = 0
    /\ gets = 0
    /\ overflows = 0
    /\ full = FALSE
    /\ buffer = [i \in 0 .. num_items - 1 |-> NoFrame]
    /\ got = NoFrame
    /\ fifo = << >>
    /\ maxsize = 0

\* (a size that takes head = tail as a full ring)
buf_size_strict(f, h, t) ==
    IF f THEN capacity
    ELSE IF h > t THEN h - t ELSE capacity + h - t

\* circular_buffer2::size(), on the members given
buf_size(f, h, t) ==
    IF f THEN capacity
    ELSE IF h >= t THEN h - t ELSE capacity + h - t

\* circular_buffer2::available()
buf_available == size > 0

\* circular_buffer2::full()
buf_full == full

\* circular_buffer2::empty()
buf_empty == ~full /\ head = tail

\* (a put that leaves the tail where it is)
put_tail_kept == tail

\* the tail index after put: the oldest item is given up when the ring is full
put_tail == IF full THEN (tail + 1) % capacity ELSE tail

\* (a put that does not count the overflow)
put_overflows_kept == overflows

\* the overflow counter after put
put_overflows == IF full THEN overflows + 1 ELSE overflows

\* the head index after put
put_head == (head + 1) % capacity

\* the high water mark after put, the new size given
put_hwm(sz) == IF sz > hwm THEN sz ELSE hwm

\* a FIFO that gives up its oldest frame when it holds cap frames
FifoPut(q, cap, item) ==
    IF Len(q) = cap THEN Append(Tail(q), item) ELSE Append(q, item)

\* circular_buffer2::put(item)
Put(item) ==
    LET f == (put_head = put_tail)
        sz == buf_size(f, put_head, put_tail)
    IN  /\ puts < MaxPuts
        /\ buffer' = [buffer EXCEPT ![head] = item]
        /\ tail' = put_tail
        /\ overflows' = put_overflows
        /\ head' = put_head
        /\ full' = f
        /\ size' = sz
        /\ hwm' = put_hwm(sz)
        /\ puts' = puts + 1
        /\ fifo' = FifoPut(fifo, capacity, item)
        /\ maxsize' = IF sz > maxsize THEN sz ELSE maxsize
        /\ got' = NoFrame
        /\ UNCHANGED <<capacity, gets>>

\* the tail index after a get that finds an item
get_tail == (tail + 1) % capacity

\* circular_buffer2::get(); got is the frame behind the pointer returned,
\* NoFrame for nullptr
Get ==
    IF size > 0
    THEN /\ got' = buffer[tail]
         /\ full' = FALSE
         /\ tail' = get_tail
         /\ size' = buf_size(FALSE, head, get_tail)
         /\ gets' = gets + 1
         /\ fifo' = IF fifo = << >> THEN << >> ELSE Tail(fifo)
         /\ UNCHANGED <<head, capacity, hwm, puts, overflows, buffer, maxsize>>
    ELSE /\ got' = NoFrame
         /\ UNCHANGED <<head, tail, capacity, size, hwm, puts, gets, overflows,
                        full, buffer, fifo, maxsize>>

\* circular_buffer2::peek()
Peek ==
    /\ got' = IF size = 0 THEN NoFrame ELSE buffer[tail]
    /\ UNCHANGED <<head, tail, capacity, size, hwm, puts, gets, overflows,
                   full, buffer, fifo, maxsize>>

\* circular_buffer2::clear()
Clear ==
    /\ head' = 0
    /\ tail' = 0
    /\ full' = FALSE
    /\ size' = 0
    /\ fifo' = << >>
    /\ got' = NoFrame
    /\ UNCHANGED <<capacity, hwm, puts, gets, overflows, buffer, maxsize>>

----------------------------------------------------------------------------
\* Frames.  data is the 8 byte payload, data[k + 1] the C data[k].

D(msg, k) == msg.data[k + 1]

\* nn = (msg->data[1] << 8) + msg->data[2]
FrameNN(msg) == D(msg, 1) * 256 + D(msg, 2)

\* en = (msg->data[3] << 8) + msg->data[4]
FrameEN(msg) == D(msg, 3) * 256 + D(msg, 4)

highByte(w) == (w \div 256) % 256
lowByte(w) == w % 256

\* CBUSbase::getCANID
getCANID(header) == header % 128

\* makeHeader_impl: the 11 bit id from the priority and the CAN id
makeHeader_impl(id, priority) == priority * 128 + (id % 128)

\* bitRead and bitWrite(x, b, 1) on a byte
bitRead(x, b) == (x \div (2 ^ b)) % 2
bitSet(x, b) == IF bitRead(x, b) = 1 THEN x ELSE x + 2 ^ b

\* the byte indicateMode receives for module_config->FLiM
ModeOf(flim) == IF flim THEN MODE_FLIM ELSE MODE_SLIM

----------------------------------------------------------------------------
\* CBUSConfig: the event table and the node variables, as the dispatcher
\* uses them.  An entry is a header (nn, en), or no header, and one byte for
\* each event variable; evhashtbl[i] is zero for an entry that holds no
\* event.

\* the event variable indexes the frames carry
EvIndexes == {1, 2}

\* a byte of erased storage
ErasedByte == 255

NoHeader == << >>
ErasedEvent == [hdr |-> NoHeader, evs |-> [k \in EvIndexes |-> ErasedByte]]

\* the store of a node that has learned nothing
EmptyStore ==
    [events |-> [i \in 0 .. EE_MAX_EVENTS - 1 |-> ErasedEvent],
     evhashtbl |-> [i \in 0 .. EE_MAX_EVENTS - 1 |-> 0],
     nvs |-> [i \in 0 .. EE_NUM_NVS |-> 0]]

\* the lowest index of Idx, or EE_MAX_EVENTS when Idx is empty
LowestIndex(Idx) ==
    IF Idx = {} THEN EE_MAX_EVENTS
    ELSE CHOOSE i \in Idx : \A j \in Idx : i <= j

\* the hash kept for a header: never zero
makeHash(hdr) == 1 + ((hdr[1] + hdr[2]) % 255)

\* CBUSConfig::findExistingEvent
findExistingEvent(e, nn, en) ==
    LowestIndex({i \in 0 .. EE_MAX_EVENTS - 1 :
                    /\ e.evhashtbl[i] # 0
                    /\ e.events[i].hdr = <<nn, en>>})

\* CBUSConfig::findEventSpace
findEventSpace(e) ==
    LowestIndex({i \in 0 .. EE_MAX_EVENTS - 1 : e.evhashtbl[i] = 0})

\* CBUSConfig::getEvTableEntry
getEvTableEntry(e, i) == IF i < EE_MAX_EVENTS THEN e.evhashtbl[i] ELSE 0

\* CBUSConfig::writeEvent
writeEvent(e, i, nn, en) == [e EXCEPT !.events[i].hdr = <<nn, en>>]

\* CBUSConfig::updateEvHashEntry
updateEvHashEntry(e, i) ==
    [e EXCEPT !.evhashtbl[i] =
        IF e.events[i].hdr = NoHeader THEN 0 ELSE makeHash(e.events[i].hdr)]

\* CBUSConfig::writeEventEV
writeEventEV(e, i, k, v) == [e EXCEPT !.events[i].evs[k] = v]

\* CBUSConfig::getEventEVval
getEventEVval(e, i, k) == e.events[i].evs[k]

\* CBUSConfig::cleareventEEPROM
cleareventEEPROM(e, i) == [e EXCEPT !.events[i] = ErasedEvent]

\* CBUSConfig::readNV, writeNV
readNV(e, i) == e.nvs[i]
writeNV(e, i, v) == [e EXCEPT !.nvs[i] = v]
clearEvHashTable(e) ==
    [e EXCEPT !.evhashtbl = [i \in 0 .. EE_MAX_EVENTS - 1 |-> 0]]
numEvents(e) == Cardinality({i \in 0 .. EE_MAX_EVENTS - 1 : e.evhashtbl[i] # 0})
\* the four bytes of entry i: nn and en, high byte first
readEvent(e, i) ==
    LET hdr == e.events[i].hdr
    IN  <<highByte(hdr[1]), lowByte(hdr[1]), highByte(hdr[2]), lowByte(hdr[2])>>

----------------------------------------------------------------------------
\* The dispatcher's state as one record, so that the methods of CBUSbase are
\* operators from state to state.

S == [nodeNum |-> nodeNum, CANID |-> CANID, FLiM |-> FLiM,
      eeprom |-> eeprom,
      bModeChanging |-> bModeChanging, bCANenum |-> bCANenum,
      bLearn |-> bLearn, enumeration_required |-> enumeration_required,
      timeOutTimer |-> timeOutTimer, CANenumTime |-> CANenumTime,
      enum_responses |-> enum_responses, UI |-> UI, mparams |-> mparams,
      eventhandler |-> eventhandler, eventhandlerex |-> eventhandlerex,
      ledMode |-> ledMode, called |-> << >>,
      now |-> now, out |-> << >>, committed |-> NoCommit, heard |-> heard,
      started |-> started, timedOut |-> FALSE]

\* the step's result becomes the next state
Commit(s) ==
    /\ nodeNum' = s.nodeNum
    /\ CANID' = s.CANID
    /\ FLiM' = s.FLiM
    /\ eeprom' = s.eeprom
    /\ bModeChanging' = s.bModeChanging
    /\ bCANenum' = s.bCANenum
    /\ bLearn' = s.bLearn
    /\ enumeration_required' = s.enumeration_required
    /\ timeOutTimer' = s.timeOutTimer
    /\ CANenumTime' = s.CANenumTime
    /\ enum_responses' = s.enum_responses
    /\ UI' = s.UI
    /\ mparams' = s.mparams
    /\ eventhandler' = s.eventhandler
    /\ eventhandlerex' = s.eventhandlerex
    /\ called' = s.called
    /\ ledMode' = s.ledMode
    /\ now' = s.now
    /\ out' = s.out
    /\ committed' = s.committed
    /\ heard' = s.heard
    /\ started' = s.started
    /\ timedOut' = s.timedOut

\* sendMessage(msg, rtr, ext, priority): the driver writes the header from
\* our CAN id and puts msg->len bytes on the bus
sendMessage(s, msg, rtr, ext) ==
    [s EXCEPT !.out = Append(@,
        [id |-> makeHeader_impl(s.CANID, DEFAULT_PRIORITY),
         rtr |-> rtr, ext |-> ext, len |-> msg.len,
         data |-> SubSeq(msg.data, 1, msg.len)])]

\* CBUSConfig::setNodeNum, setFLiM, setCANID: the setters persist the value
setNodeNum(s, nn) == [s EXCEPT !.nodeNum = nn]
setFLiM(s, f) == [s EXCEPT !.FLiM = f]
setCANID(s, id) == [s EXCEPT !.CANID = id]

\* CBUSbase::indicateMode
indicateMode(s, mode) == IF s.UI THEN [s EXCEPT !.ledMode = mode] ELSE s

\* the payload with bytes 0 .. 2 set to an opcode and our node number
WithOpcNN(data, opc, nn) ==
    [data EXCEPT ![1] = opc, ![2] = highByte(nn), ![3] = lowByte(nn)]

\* (a CMDERR that leaves the node number bytes of the request)
sendCMDERRKeepNN(s, msg, cerrno) ==
    sendMessage(s, [msg EXCEPT !.len = 4,
                    !.data = [msg.data EXCEPT ![1] = OPC_CMDERR,
                                              ![4] = cerrno]], FALSE, FALSE)

\* CBUSbase::sendCMDERR
sendCMDERR(s, msg, cerrno) ==
    sendMessage(s, [msg EXCEPT !.len = 4,
                    !.data = [WithOpcNN(msg.data, OPC_CMDERR, s.nodeNum)
                                EXCEPT ![4] = cerrno]], FALSE, FALSE)

\* CBUSbase::sendWRACK
sendWRACK(s, msg) ==
    sendMessage(s, [msg EXCEPT !.len = 3,
                    !.data = WithOpcNN(msg.data, OPC_WRACK, s.nodeNum)],
                FALSE, FALSE)

\* (a setSLiM that leaves the node number in the store)
setSLiMKeepNN(s) ==
    LET s1 == [s EXCEPT !.bModeChanging = FALSE]
        s2 == setCANID(setFLiM(s1, FALSE), 0)
    IN  indicateMode(s2, ModeOf(s2.FLiM))

\* CBUSbase::setSLiM
setSLiM(s) ==
    LET s1 == [s EXCEPT !.bModeChanging = FALSE]
        s2 == setCANID(setFLiM(setNodeNum(s1, 0), FALSE), 0)
    IN  indicateMode(s2, ModeOf(s2.FLiM))

\* the cleared 128 bit field
NoResponses == [i \in 0 .. NUM_ENUM_BYTES - 1 |-> 0]

\* CBUSbase::CANenumeration
CANenumeration(s, msg) ==
    LET s1 == [s EXCEPT !.bCANenum = TRUE, !.CANenumTime = s.now,
                        !.enum_responses = NoResponses,
                        !.heard = {}, !.started = TRUE]
    IN  sendMessage(s1, [msg EXCEPT !.len = 0], TRUE, FALSE)

\* CBUSbase::initFLiM
initFLiM(s, msg) ==
    LET s1 == indicateMode(s, MODE_CHANGING)
        s2 == [s1 EXCEPT !.bModeChanging = TRUE, !.timeOutTimer = s.now]
    IN  sendMessage(s2, [msg EXCEPT !.len = 3,
                         !.data = WithOpcNN(msg.data, OPC_RQNN, s.nodeNum)],
                    FALSE, FALSE)

\* (a revert that resets the configuration before it sends NNREL)
revertSLiMAfter(s, msg) ==
    LET s1 == setSLiM(s)
    IN  sendMessage(s1, [msg EXCEPT !.len = 3,
                         !.data = WithOpcNN(msg.data, OPC_NNREL, s1.nodeNum)],
                    FALSE, FALSE)

\* CBUSbase::revertSLiM
revertSLiM(s, msg) ==
    setSLiM(sendMessage(s, [msg EXCEPT !.len = 3,
                            !.data = WithOpcNN(msg.data, OPC_NNREL, s.nodeNum)],
                        FALSE, FALSE))

\* CBUSbase::renegotiate
renegotiate(s, msg) == initFLiM(s, msg)

----------------------------------------------------------------------------
\* CAN id enumeration

\* the byte and the bit of enum_responses that a response from CAN id p sets
EnumByteIndex(p) == p \div 16
EnumBitIndex(p) == p % 8

\* bitWrite(enum_responses[remoteCANID / 16], remoteCANID % 8, 1)
RecordResponse(resp, p) ==
    [resp EXCEPT ![EnumByteIndex(p)] = bitSet(@, EnumBitIndex(p))]

\* (a scan that takes the places as 8 per byte)
SlotIdPerByte(i, b) == (i * 8) + b

\* the CAN id checkCANenum derives from bit b of byte i
SlotId(i, b) == (i * 16) + b

\* the scan of checkCANenum from bit b of byte i on: the CAN id of the first
\* clear bit, in byte then bit order, and 1 when the scan finds none; a byte
\* of all ones is passed over, and so is bit 0 of byte 0
RECURSIVE ScanFrom(_, _, _)
ScanFrom(resp, i, b) ==
    IF i >= NUM_ENUM_BYTES THEN 1
    ELSE IF resp[i] = 255 \/ b >= 8 THEN ScanFrom(resp, i + 1, 0)
    ELSE IF i = 0 /\ b = 0 THEN ScanFrom(resp, i, b + 1)
    ELSE IF bitRead(resp[i], b) = 0 THEN SlotId(i, b)
    ELSE ScanFrom(resp, i, b + 1)

\* (a scan that does not pass over bit 0 of byte 0)
RECURSIVE ScanAllFrom(_, _, _)
ScanAllFrom(resp, i, b) ==
    IF i >= NUM_ENUM_BYTES THEN 1
    ELSE IF resp[i] = 255 \/ b >= 8 THEN ScanAllFrom(resp, i + 1, 0)
    ELSE IF bitRead(resp[i], b) = 0 THEN SlotId(i, b)
    ELSE ScanAllFrom(resp, i, b + 1)

SelectedIdFromZero(resp) == ScanAllFrom(resp, 0, 0) % 256

\* selected_id, a byte
SelectedId(resp) == ScanFrom(resp, 0, 0) % 256

\* (millis() - since) >= limit in unsigned arithmetic: a start time ahead of
\* the clock wraps to a difference above every limit used here
ElapsedAtLeast(s, since, limit) ==
    IF s.now >= since THEN s.now - since >= limit ELSE TRUE

\* (a check that ends the cycle one millisecond early)
checkCANenumEarly(s) ==
    IF s.bCANenum /\ ElapsedAtLeast(s, s.CANenumTime, ENUM_WINDOW - 1)
    THEN LET id == SelectedId(s.enum_responses)
         IN  setCANID([s EXCEPT !.bCANenum = FALSE, !.CANenumTime = 0,
                                !.committed = id], id)
    ELSE s

\* CBUSbase::checkCANenum
checkCANenum(s) ==
    IF s.bCANenum /\ ElapsedAtLeast(s, s.CANenumTime, ENUM_WINDOW)
    THEN LET id == SelectedId(s.enum_responses)
         IN  setCANID([s EXCEPT !.bCANenum = FALSE, !.CANenumTime = 0,
                                !.committed = id], id)
    ELSE s

----------------------------------------------------------------------------
\* CBUSbase::process_single_message

\* the CAN id clash test made on every frame that is not a probe
IsClash(s, msg) ==
    /\ msg.len > 0
    /\ getCANID(msg.id) = s.CANID
    /\ FrameNN(msg) # s.nodeNum

\* (an SNN handler that does not ask for the mode change)
OnSNNAnyTime(s, msg) ==
    LET s1 == setNodeNum(s, FrameNN(msg))
        s2 == sendMessage(s1, [msg EXCEPT !.len = 3,
                               !.data = [msg.data EXCEPT ![1] = OPC_NNACK]],
                          FALSE, FALSE)
        s3 == setFLiM([s2 EXCEPT !.bModeChanging = FALSE], TRUE)
        s4 == indicateMode(s3, ModeOf(s3.FLiM))
    IN  CANenumeration(s4, msg)

\* (an SNN handler that does not start the enumeration)
OnSNNNoEnum(s, msg) ==
    IF s.bModeChanging
    THEN LET s1 == setNodeNum(s, FrameNN(msg))
             s2 == sendMessage(s1, [msg EXCEPT !.len = 3,
                                    !.data = [msg.data EXCEPT ![1] = OPC_NNACK]],
                               FALSE, FALSE)
             s3 == setFLiM([s2 EXCEPT !.bModeChanging = FALSE], TRUE)
         IN  indicateMode(s3, ModeOf(s3.FLiM))
    ELSE s

\* case OPC_SNN
OnSNN(s, msg) ==
    IF s.bModeChanging
    THEN LET s1 == setNodeNum(s, FrameNN(msg))
             s2 == sendMessage(s1, [msg EXCEPT !.len = 3,
                                    !.data = [msg.data EXCEPT ![1] = OPC_NNACK]],
                               FALSE, FALSE)
             s3 == setFLiM([s2 EXCEPT !.bModeChanging = FALSE], TRUE)
             s4 == indicateMode(s3, ModeOf(s3.FLiM))
         IN  CANenumeration(s4, msg)
    ELSE s

\* (an abort that sends no NNACK)
OnRQNNSilent(s, msg) ==
    IF s.bModeChanging
    THEN indicateMode([s EXCEPT !.bModeChanging = FALSE], ModeOf(s.FLiM))
    ELSE s

\* case OPC_RQNN
OnRQNN(s, msg) ==
    IF s.bModeChanging
    THEN LET s1 == indicateMode([s EXCEPT !.bModeChanging = FALSE],
                                ModeOf(s.FLiM))
         IN  sendMessage(s1, [msg EXCEPT !.len = 3,
                              !.data = WithOpcNN(msg.data, OPC_NNACK, s.nodeNum)],
                         FALSE, FALSE)
    ELSE s

\* (a CANID test that lets 100 through)
OnCANIDUpTo100(s, msg) ==
    IF FrameNN(msg) = s.nodeNum
    THEN IF D(msg, 3) < 1 \/ D(msg, 3) > 100
         THEN sendCMDERR(s, msg, 7)
         ELSE setCANID(s, D(msg, 3))
    ELSE s

\* case OPC_CANID
OnCANID(s, msg) ==
    IF FrameNN(msg) = s.nodeNum
    THEN IF D(msg, 3) < 1 \/ D(msg, 3) > 99
         THEN sendCMDERR(s, msg, 7)
         ELSE setCANID(s, D(msg, 3))
    ELSE s

\* (an ENUM handler that starts again while a cycle is running)
OnENUMRestart(s, msg) ==
    IF /\ FrameNN(msg) = s.nodeNum
       /\ getCANID(msg.id) # s.CANID
    THEN CANenumeration(s, msg)
    ELSE s

\* case OPC_ENUM
OnENUM(s, msg) ==
    IF /\ FrameNN(msg) = s.nodeNum
       /\ getCANID(msg.id) # s.CANID
       /\ ~s.bCANenum
    THEN CANenumeration(s, msg)
    ELSE s

\* case OPC_NNLRN
OnNNLRN(s, msg) ==
    IF FrameNN(msg) = s.nodeNum
    THEN [s EXCEPT !.bLearn = TRUE, !.mparams[8] = bitSet(@, 5)]
    ELSE s

\* case OPC_NNULN
OnNNULN(s, msg) ==
    IF FrameNN(msg) = s.nodeNum
    THEN [s EXCEPT !.bLearn = FALSE,
                   !.mparams[8] = IF bitRead(@, 5) = 1 THEN @ - 32 ELSE @]
    ELSE s

\* (a parameter test that refuses the index params[0])
OnRQNPNBelowCount(s, msg) ==
    IF FrameNN(msg) = s.nodeNum
    THEN LET paran == D(msg, 3)
         IN  IF paran < s.mparams[0]
             THEN sendMessage(s, [msg EXCEPT !.len = 5,
                                  !.data = [msg.data EXCEPT
                                              ![1] = OPC_PARAN,
                                              ![4] = paran,
                                              ![5] = s.mparams[paran]]],
                              FALSE, FALSE)
             ELSE sendCMDERR(s, msg, 9)
    ELSE s

\* case OPC_RQNPN
OnRQNPN(s, msg) ==
    IF FrameNN(msg) = s.nodeNum
    THEN LET paran == D(msg, 3)
         IN  IF paran <= s.mparams[0]
             THEN sendMessage(s, [msg EXCEPT !.len = 5,
                                  !.data = [msg.data EXCEPT
                                              ![1] = OPC_PARAN,
                                              ![4] = paran,
                                              ![5] = s.mparams[paran]]],
                              FALSE, FALSE)
             ELSE sendCMDERR(s, msg, 9)
    ELSE s

\* case OPC_NVRD
OnNVRD(s, msg) ==
    IF FrameNN(msg) = s.nodeNum
    THEN LET nvindex == D(msg, 3)
         IN  IF nvindex > EE_NUM_NVS
             THEN sendCMDERR(s, msg, 10)
             ELSE sendMessage(s, [msg EXCEPT !.len = 5,
                                  !.data = [msg.data EXCEPT
                                              ![1] = OPC_NVANS,
                                              ![5] = readNV(s.eeprom, nvindex)]],
                              FALSE, FALSE)
    ELSE s

\* (an NVSET that acknowledges and stores nothing)
OnNVSETNoStore(s, msg) ==
    IF FrameNN(msg) = s.nodeNum
    THEN IF D(msg, 3) > EE_NUM_NVS
         THEN sendCMDERR(s, msg, 10)
         ELSE sendWRACK(s, msg)
    ELSE s

\* case OPC_NVSET
OnNVSET(s, msg) ==
    IF FrameNN(msg) = s.nodeNum
    THEN IF D(msg, 3) > EE_NUM_NVS
         THEN sendCMDERR(s, msg, 10)
         ELSE sendWRACK([s EXCEPT !.eeprom = writeNV(@, D(msg, 3), D(msg, 4))],
                        msg)
    ELSE s

\* (an unlearn that clears the entry and leaves its hash entry)
OnEVULNKeepHash(s, msg) ==
    IF s.bLearn
    THEN LET index == findExistingEvent(s.eeprom, FrameNN(msg), FrameEN(msg))
         IN  IF index < EE_MAX_EVENTS
             THEN sendWRACK(
                      [s EXCEPT !.eeprom = cleareventEEPROM(@, index)], msg)
             ELSE sendCMDERR(s, msg, 10)
    ELSE s

\* case OPC_EVULN
OnEVULN(s, msg) ==
    IF s.bLearn
    THEN LET index == findExistingEvent(s.eeprom, FrameNN(msg), FrameEN(msg))
         IN  IF index < EE_MAX_EVENTS
             THEN sendWRACK(
                      [s EXCEPT !.eeprom =
                          updateEvHashEntry(cleareventEEPROM(@, index), index)],
                      msg)
             ELSE sendCMDERR(s, msg, 10)
    ELSE s

\* (a REVAL that tests the range of the index and not the entry)
OnREVALInRange(s, msg) ==
    IF FrameNN(msg) = s.nodeNum
    THEN IF D(msg, 3) < EE_MAX_EVENTS
         THEN sendMessage(s, [msg EXCEPT !.len = 6,
                              !.data = [msg.data EXCEPT
                                          ![1] = OPC_NEVAL,
                                          ![6] = getEventEVval(s.eeprom,
                                                     D(msg, 3), D(msg, 4))]],
                          FALSE, FALSE)
         ELSE sendCMDERR(s, msg, 6)
    ELSE s

\* case OPC_REVAL
OnREVAL(s, msg) ==
    IF FrameNN(msg) = s.nodeNum
    THEN IF getEvTableEntry(s.eeprom, D(msg, 3)) # 0
         THEN sendMessage(s, [msg EXCEPT !.len = 6,
                              !.data = [msg.data EXCEPT
                                          ![1] = OPC_NEVAL,
                                          ![6] = getEventEVval(s.eeprom,
                                                     D(msg, 3), D(msg, 4))]],
                          FALSE, FALSE)
         ELSE sendCMDERR(s, msg, 6)
    ELSE s

\* (a learn that writes the header and forgets the event variable)
LearnAtHeaderOnly(e, index, msg) ==
    IF D(msg, 5) < 2
    THEN updateEvHashEntry(
             writeEvent(e, index, FrameNN(msg), FrameEN(msg)), index)
    ELSE e

\* the store after EVLRN has found index for the event: the header is
\* written for the event variables 0 and 1 only
LearnAt(e, index, msg) ==
    LET evindex == D(msg, 5)
        e1 == IF evindex < 2
              THEN updateEvHashEntry(
                       writeEvent(e, index, FrameNN(msg), FrameEN(msg)), index)
              ELSE e
    IN  writeEventEV(e1, index, evindex, D(msg, 6))

\* (an EVLRN that does not look for the event in the table)
OnEVLRNAlwaysNew(s, msg) ==
    IF s.bLearn
    THEN LET index == findEventSpace(s.eeprom)
         IN  IF index < EE_MAX_EVENTS
             THEN sendWRACK([s EXCEPT !.eeprom = LearnAt(@, index, msg)], msg)
             ELSE sendCMDERR(s, msg, 10)
    ELSE s

\* (an EVLRN that takes entry 0 when the table has no room)
OnEVLRNOverwrite(s, msg) ==
    IF s.bLearn
    THEN LET found == findExistingEvent(s.eeprom, FrameNN(msg), FrameEN(msg))
             index == IF found >= EE_MAX_EVENTS
                      THEN findEventSpace(s.eeprom) ELSE found
         IN  IF index < EE_MAX_EVENTS
             THEN sendWRACK([s EXCEPT !.eeprom = LearnAt(@, index, msg)], msg)
             ELSE sendWRACK([s EXCEPT !.eeprom = LearnAt(@, 0, msg)], msg)
    ELSE s

\* case OPC_EVLRN
OnEVLRN(s, msg) ==
    IF s.bLearn
    THEN LET found == findExistingEvent(s.eeprom, FrameNN(msg), FrameEN(msg))
             index == IF found >= EE_MAX_EVENTS
                      THEN findEventSpace(s.eeprom) ELSE found
         IN  IF index < EE_MAX_EVENTS
             THEN sendWRACK([s EXCEPT !.eeprom = LearnAt(@, index, msg)], msg)
             ELSE sendCMDERR(s, msg, 10)
    ELSE s

\* case OPC_RQNP
OnRQNP(s, msg) ==
    IF s.bModeChanging
    THEN sendMessage(s, [msg EXCEPT !.len = 8,
                         !.data = <<OPC_PARAMS, s.mparams[1], s.mparams[2],
                                    s.mparams[3], s.mparams[4], s.mparams[5],
                                    s.mparams[6], s.mparams[7]>>],
                     FALSE, FALSE)
    ELSE s

\* case OPC_RQEVN
OnRQEVN(s, msg) ==
    IF FrameNN(msg) = s.nodeNum
    THEN sendMessage(s, [msg EXCEPT !.len = 4,
                         !.data = [msg.data EXCEPT
                                     ![1] = OPC_NUMEV,
                                     ![4] = numEvents(s.eeprom)]],
                     FALSE, FALSE)
    ELSE s

\* the loop of case OPC_NERD from entry i on: one ENRSP for every entry in use
RECURSIVE NerdFrom(_, _, _)
NerdFrom(s, msg, i) ==
    IF i >= EE_MAX_EVENTS THEN s
    ELSE IF getEvTableEntry(s.eeprom, i) # 0
         THEN LET ev == readEvent(s.eeprom, i)
                  m == [msg EXCEPT !.data = [@ EXCEPT ![4] = ev[1], ![5] = ev[2],
                                                      ![6] = ev[3], ![7] = ev[4],
                                                      ![8] = i]]
              IN  NerdFrom(sendMessage(s, m, FALSE, FALSE), m, i + 1)
         ELSE NerdFrom(s, msg, i + 1)

\* case OPC_NERD
OnNERD(s, msg) ==
    IF FrameNN(msg) = s.nodeNum
    THEN NerdFrom(s, [msg EXCEPT !.len = 8,
                      !.data = WithOpcNN(msg.data, OPC_ENRSP, s.nodeNum)], 0)
    ELSE s

\* the store after the loop of case OPC_NNCLR has cleared the entries from i on
RECURSIVE ClearFrom(_, _)
ClearFrom(e, i) ==
    IF i >= EE_MAX_EVENTS THEN e ELSE ClearFrom(cleareventEEPROM(e, i), i + 1)

\* (an NNCLR that does not ask for learn mode)
OnNNCLRAnyMode(s, msg) ==
    IF FrameNN(msg) = s.nodeNum
    THEN sendWRACK([s EXCEPT !.eeprom = clearEvHashTable(ClearFrom(@, 0))],
                   msg)
    ELSE s

\* case OPC_NNCLR
OnNNCLR(s, msg) ==
    IF s.bLearn /\ FrameNN(msg) = s.nodeNum
    THEN sendWRACK([s EXCEPT !.eeprom = clearEvHashTable(ClearFrom(@, 0))],
                   msg)
    ELSE s

\* case OPC_NNEVN
OnNNEVN(s, msg) ==
    IF s.nodeNum = FrameNN(msg)
    THEN LET free_slots == Cardinality({i \in 0 .. EE_MAX_EVENTS - 1 :
                                          getEvTableEntry(s.eeprom, i) = 0})
         IN  sendMessage(s, [msg EXCEPT !.len = 4,
                             !.data = [msg.data EXCEPT ![1] = OPC_EVNLF,
                                                       ![4] = free_slots]],
                         FALSE, FALSE)
    ELSE s

\* case OPC_QNN
OnQNN(s, msg) ==
    IF s.nodeNum > 0
    THEN sendMessage(s, [msg EXCEPT !.len = 6,
                         !.data = [WithOpcNN(msg.data, OPC_PNN, s.nodeNum)
                                     EXCEPT ![4] = s.mparams[1],
                                            ![5] = s.mparams[3],
                                            ![6] = s.mparams[8]]],
                     FALSE, FALSE)
    ELSE s

\* the seven characters setName has registered
ModuleName == <<84, 69, 83, 84, 32, 32, 32>>

\* case OPC_RQMN
OnRQMN(s, msg) ==
    IF s.bModeChanging
    THEN sendMessage(s, [msg EXCEPT !.len = 8,
                         !.data = <<OPC_NAME>> \o ModuleName],
                     FALSE, FALSE)
    ELSE s

\* the number of event variables of an entry
EE_NUM_EVS == Cardinality(EvIndexes)

\* (a lookup that calls both handlers when both are registered)
processAccessoryEventBoth(s, nn, en, is_on_event) ==
    LET index == findExistingEvent(s.eeprom, nn, en)
        ex == [ex |-> TRUE, index |-> index, on |-> is_on_event,
               ev |-> IF EE_NUM_EVS > 0
                      THEN getEventEVval(s.eeprom, index, 1) ELSE 0]
    IN  IF index < EE_MAX_EVENTS
        THEN LET s1 == IF s.eventhandler
                       THEN [s EXCEPT !.called =
                                Append(@, [ex |-> FALSE, index |-> index])]
                       ELSE s
             IN  IF s.eventhandlerex
                 THEN [s1 EXCEPT !.called = Append(@, ex)]
                 ELSE s1
        ELSE s

\* CBUSbase::processAccessoryEvent: the handler called, with its arguments
\* other than the frame
processAccessoryEvent(s, nn, en, is_on_event) ==
    LET index == findExistingEvent(s.eeprom, nn, en)
    IN  IF index < EE_MAX_EVENTS
        THEN IF s.eventhandler
             THEN [s EXCEPT !.called =
                      Append(@, [ex |-> FALSE, index |-> index])]
             ELSE IF s.eventhandlerex
             THEN [s EXCEPT !.called =
                      Append(@, [ex |-> TRUE, index |-> index,
                                 on |-> is_on_event,
                                 ev |-> IF EE_NUM_EVS > 0
                                        THEN getEventEVval(s.eeprom, index, 1)
                                        ELSE 0])]
             ELSE s
        ELSE s

\* the case labels of the long and of the short accessory events
LongEventOpcodes ==
    {OPC_ACON, OPC_ACON1, OPC_ACON2, OPC_ACON3,
     OPC_ACOF, OPC_ACOF1, OPC_ACOF2, OPC_ACOF3, OPC_ARON, OPC_AROF}
ShortEventOpcodes ==
    {OPC_ASON, OPC_ASON1, OPC_ASON2, OPC_ASON3,
     OPC_ASOF, OPC_ASOF1, OPC_ASOF2, OPC_ASOF3}

\* case OPC_ACON .. OPC_AROF
OnLongEvent(s, msg) ==
    IF s.eventhandler \/ s.eventhandlerex
    THEN processAccessoryEvent(s, FrameNN(msg), FrameEN(msg),
                               D(msg, 0) % 2 = 0)
    ELSE s

\* case OPC_ASON .. OPC_ASOF3
OnShortEvent(s, msg) ==
    IF s.eventhandler \/ s.eventhandlerex
    THEN processAccessoryEvent(s, 0, FrameEN(msg), D(msg, 0) % 2 = 0)
    ELSE s

\* switch (opc)
OnOpcode(s, msg) ==
    LET opc == D(msg, 0)
    IN  CASE opc = OPC_SNN -> OnSNN(s, msg)
          [] opc = OPC_RQNN -> OnRQNN(s, msg)
          [] opc = OPC_CANID -> OnCANID(s, msg)
          [] opc = OPC_ENUM -> OnENUM(s, msg)
          [] opc = OPC_NNLRN -> OnNNLRN(s, msg)
          [] opc = OPC_NNULN -> OnNNULN(s, msg)
          [] opc = OPC_RQNPN -> OnRQNPN(s, msg)
          [] opc = OPC_NVRD -> OnNVRD(s, msg)
          [] opc = OPC_NVSET -> OnNVSET(s, msg)
          [] opc = OPC_EVULN -> OnEVULN(s, msg)
          [] opc = OPC_REVAL -> OnREVAL(s, msg)
          [] opc = OPC_EVLRN -> OnEVLRN(s, msg)
          [] opc = OPC_RQNP -> OnRQNP(s, msg)
          [] opc = OPC_RQEVN -> OnRQEVN(s, msg)
          [] opc = OPC_NERD -> OnNERD(s, msg)
          [] opc = OPC_NNCLR -> OnNNCLR(s, msg)
          [] opc = OPC_NNEVN -> OnNNEVN(s, msg)
          [] opc = OPC_QNN -> OnQNN(s, msg)
          [] opc = OPC_RQMN -> OnRQMN(s, msg)
          [] opc \in LongEventOpcodes -> OnLongEvent(s, msg)
          [] opc \in ShortEventOpcodes -> OnShortEvent(s, msg)
          [] OTHER -> s

\* a zero length frame while enumerating: the response of a peer
OnEnumResponse(s, msg) ==
    LET p == getCANID(msg.id)
    IN  IF p > 0
        THEN [s EXCEPT !.enum_responses = RecordResponse(@, p),
                       !.heard = @ \cup {p}]
        ELSE s

\* the flag after the clash test
AfterClashTest(s, msg) ==
    IF IsClash(s, msg) THEN [s EXCEPT !.enumeration_required = TRUE] ELSE s

\* (a probe reply that is recorded as a response when we are enumerating)
process_single_message_probe_late(s, msg) ==
    LET s1 == AfterClashTest(s, msg)
    IN  IF msg.ext THEN s1
        ELSE IF s1.bCANenum /\ msg.len = 0 THEN OnEnumResponse(s1, msg)
        ELSE IF msg.rtr /\ msg.len = 0
             THEN sendMessage(s, [msg EXCEPT !.len = 0], FALSE, FALSE)
        ELSE IF msg.len > 0 THEN OnOpcode(s1, msg)
        ELSE s1

process_single_message(s, msg) ==
    IF msg.rtr /\ msg.len = 0
    THEN sendMessage(s, [msg EXCEPT !.len = 0], FALSE, FALSE)
    ELSE LET s1 == AfterClashTest(s, msg)
         IN  IF msg.ext THEN s1
             ELSE IF s1.bCANenum /\ msg.len = 0 THEN OnEnumResponse(s1, msg)
             ELSE IF msg.len > 0 THEN OnOpcode(s1, msg)
             ELSE s1

----------------------------------------------------------------------------
\* CBUSbase::process, in steps

\* the scratch frame _msg where its payload does not reach the bus
BlankMsg == [id |-> 0, rtr |-> FALSE, ext |-> FALSE, len |-> 0,
             data |-> <<0, 0, 0, 0, 0, 0, 0, 0>>]

\* what the switch reports in one call of process: isPressed, stateChanged,
\* getCurrentStateDuration and getLastStateDuration
PressTimes == {100, 499, 500, 999, 1000, 1999, 2000, 6000, 6001}
SwitchInputs ==
    {[pressed |-> FALSE, changed |-> FALSE, cur |-> 0, last |-> 0],
     [pressed |-> TRUE, changed |-> TRUE, cur |-> 0, last |-> 0]}
    \cup {[pressed |-> TRUE, changed |-> FALSE, cur |-> t, last |-> 0] :
            t \in {6000, 6001}}
    \cup {[pressed |-> FALSE, changed |-> TRUE, cur |-> 0, last |-> t] :
            t \in PressTimes}

\* (a long hold that begins at SW_TR_HOLD)
OnLongHoldAtLeast(s, press_time) ==
    IF press_time >= SW_TR_HOLD
    THEN IF ~s.FLiM THEN initFLiM(s, BlankMsg) ELSE revertSLiM(s, BlankMsg)
    ELSE s

\* the long hold: press_time > SW_TR_HOLD
OnLongHold(s, press_time) ==
    IF press_time > SW_TR_HOLD
    THEN IF ~s.FLiM THEN initFLiM(s, BlankMsg) ELSE revertSLiM(s, BlankMsg)
    ELSE s

\* 1 to 2 seconds: renegotiate
OnShortHold(s, press_time) ==
    IF press_time >= 1000 /\ press_time < 2000
    THEN renegotiate(s, BlankMsg)
    ELSE s

\* under half a second, in FLiM: enumerate
OnVeryShortHold(s, press_time) ==
    IF press_time < 500 /\ s.FLiM THEN CANenumeration(s, BlankMsg) ELSE s

\* the if (UI) block of process
OnSwitch(s, sw) ==
    IF ~s.UI THEN s
    ELSE LET s1 == IF sw.pressed /\ sw.cur > SW_TR_HOLD
                   THEN indicateMode(s, MODE_CHANGING) ELSE s
         IN  IF sw.changed /\ ~sw.pressed
             THEN OnVeryShortHold(
                      OnShortHold(OnLongHold(s1, sw.last), sw.last), sw.last)
             ELSE s1

\* (a start of process that leaves the flag set)
StartRequiredEnumKeepFlag(s) ==
    IF s.enumeration_required THEN CANenumeration(s, BlankMsg) ELSE s

\* the start of process: the deferred enumeration
StartRequiredEnum(s) ==
    IF s.enumeration_required
    THEN CANenumeration([s EXCEPT !.enumeration_required = FALSE], BlankMsg)
    ELSE s

\* process(n) up to its while loop
ProcessBegin(n, sw) ==
    /\ pc = "idle"
    /\ Commit(OnSwitch(StartRequiredEnum(S), sw))
    /\ pc' = "drain"
    /\ num_messages' = n
    /\ mcount' = 0

\* one turn of the while loop: a frame is available and is processed
ProcessFrame(msg) ==
    /\ pc = "drain"
    /\ mcount < num_messages
    /\ Commit(process_single_message(S, msg))
    /\ mcount' = mcount + 1
    /\ UNCHANGED <<pc, num_messages>>

\* (a timeout that needs more than 30 seconds)
CheckModeTimeoutLate(s) ==
    IF s.bModeChanging /\ ElapsedAtLeast(s, s.timeOutTimer, MODE_TIMEOUT + 1)
    THEN [indicateMode(s, ModeOf(s.FLiM)) EXCEPT !.bModeChanging = FALSE,
                                                 !.timedOut = TRUE]
    ELSE s

\* the 30 second timeout of the SLiM/FLiM negotiation
CheckModeTimeout(s) ==
    IF s.bModeChanging /\ ElapsedAtLeast(s, s.timeOutTimer, MODE_TIMEOUT)
    THEN [indicateMode(s, ModeOf(s.FLiM)) EXCEPT !.bModeChanging = FALSE,
                                                 !.timedOut = TRUE]
    ELSE s

\* the loop ends (mcount reached num_messages, or nothing is available),
\* then checkCANenum and the timeout check
ProcessEnd ==
    /\ pc = "drain"
    /\ Commit(CheckModeTimeout(checkCANenum(S)))
    /\ pc' = "idle"
    /\ num_messages' = 0
    /\ mcount' = 0

\* millis() moves on, to one of the instants given
Tick(instants) ==
    /\ \E t \in instants : t > now /\ Commit([S EXCEPT !.now = t])
    /\ UNCHANGED <<pc, num_messages, mcount>>

----------------------------------------------------------------------------
\* Construction

\* the parameter block the sketch hands to setParams: params[0] = 8
\* parameters, params[8] the flags
InitParams == [i \in 0 .. 8 |-> IF i = 0 THEN 8 ELSE i]

\* the configurations the store can hold at start: a virgin SLiM node, or a
\* FLiM node with node number 260 and CAN id 5
StoredConfigs ==
    {[nodeNum |-> 0, CANID |-> 0, FLiM |-> FALSE],
     [nodeNum |-> 260, CANID |-> 5, FLiM |-> TRUE]}

\* CBUSbase::CBUSbase leaves bModeChanging, bCANenum, bLearn,
\* enumeration_required, the two timers, enum_responses and the two event
\* handlers without a value:
\* zero for an object in static storage, anything for another
InitCBUS ==
    /\ \E c \in StoredConfigs :
          nodeNum = c.nodeNum /\ CANID = c.CANID /\ FLiM = c.FLiM
    /\ bModeChanging \in BOOLEAN
    /\ bCANenum \in BOOLEAN
    /\ bLearn \in BOOLEAN
    /\ enumeration_required \in BOOLEAN
    /\ \E g \in {[t |-> 0, r |-> 0, h |-> FALSE],
                  [t |-> 30000, r |-> 255, h |-> TRUE]} :
          /\ timeOutTimer = g.t /\ CANenumTime = g.t
          /\ enum_responses = [i \in 0 .. NUM_ENUM_BYTES - 1 |-> g.r]
          /\ eventhandler = g.h /\ eventhandlerex = g.h
    /\ UI \in BOOLEAN
    /\ eeprom = EmptyStore
    /\ mparams = InitParams
    /\ ledMode = NoMode
    /\ pc = "idle"
    /\ num_messages = 0
    /\ mcount = 0
    /\ now = 0
    /\ out = << >>
    /\ committed = NoCommit
    /\ heard = {}
    /\ started = FALSE
    /\ timedOut = FALSE
    /\ called = << >>
    /\ coe_obj = FALSE
    /\ rxq = << >>

\* the same object in static storage: every member zero
InitStatic ==
    /\ InitCBUS
    /\ ~bModeChanging /\ ~bCANenum /\ ~bLearn /\ ~enumeration_required
    /\ timeOutTimer = 0 /\ CANenumTime = 0
    /\ enum_responses = NoResponses
    /\ ~eventhandler /\ ~eventhandlerex

----------------------------------------------------------------------------
\* The frames on the bus

Frame(canid, rtr, ext, len, data) ==
    [id |-> makeHeader_impl(canid, DEFAULT_PRIORITY), rtr |-> rtr, ext |-> ext,
     len |-> len, data |-> data]

\* a payload of opcode, node number and one more byte
Payload(opc, nn, d3) ==
    <<opc, highByte(nn), lowByte(nn), d3, 0, 0, 0, 0>>

CanIds == {1, 5}
NodeNums == {0, 260}
Opcodes == {OPC_SNN, OPC_RQNN, OPC_CANID, OPC_ENUM, OPC_NNLRN, OPC_NNULN,
            OPC_ACON}

\* zero length frames: probes (rtr) and responses to probes
ZeroFrames(ids, exts) ==
    {Frame(c, r, e, 0, BlankMsg.data) : c \in ids, r \in BOOLEAN, e \in exts}

\* frames with a payload, from the CAN ids given
DataFrames(ids, opcs, exts) ==
    {Frame(c, FALSE, e, 3, Payload(o, n, 0)) :
        c \in ids, e \in exts, o \in opcs \ {OPC_CANID}, n \in NodeNums}
    \cup {Frame(c, FALSE, e, 4, Payload(OPC_CANID, n, d)) :
        c \in ids, e \in exts, o \in opcs \cap {OPC_CANID}, n \in NodeNums,
        d \in {0, 99}}
    \cup {Frame(c, TRUE, e, 3, Payload(OPC_SNN, n, 0)) :
        c \in ids, e \in exts, n \in {260}}

\* standard frames of every kind, and extended frames of every shape
Frames ==
    ZeroFrames(CanIds, BOOLEAN)
    \cup DataFrames(CanIds, Opcodes, {FALSE})
    \cup DataFrames(CanIds, {OPC_SNN}, {TRUE})

Instants == {0, 100, 30000}

----------------------------------------------------------------------------
\* Spec: the dispatcher under any of the frames of Frames

Init == InitCBUS /\ circular_buffer2(COE_NUM_ITEMS)

Next ==
    \/ \E n \in 0 .. MaxMessages, sw \in SwitchInputs :
          ProcessBegin(n, sw) /\ UNCHANGED bufVars
    \/ \E msg \in Frames : ProcessFrame(msg) /\ UNCHANGED bufVars
    \/ ProcessEnd /\ UNCHANGED bufVars
    \/ Tick(Instants) /\ UNCHANGED bufVars

Spec == Init /\ [][Next]_vars

----------------------------------------------------------------------------
\* EnumSpec: a FLiM node asked to enumerate (ENUM) on a bus of up to 127
\* peers.  The responses of one cycle come in ascending CAN id order, the
\* order in which arbitration delivers them; the set stored is any subset of
\* 1 .. MaxPeer followed by any run of consecutive ids.

MAX_CANID == 127

Highest(ids) == IF ids = {} THEN 0 ELSE CHOOSE p \in ids : \A q \in ids : q <= p

NextPeers ==
    LET h == Highest(heard)
    IN  (h + 1 .. MaxPeer) \cup ({h + 1} \cap (1 .. MAX_CANID))

\* the ENUM request is made once
EnumFrames ==
    (IF started THEN {}
     ELSE {Frame(0, FALSE, FALSE, 3, Payload(OPC_ENUM, 260, 0))})
    \cup {Frame(p, FALSE, FALSE, 0, BlankMsg.data) : p \in NextPeers \cup {0}}

EnumInstants == {0, 99, 100}

NoSwitch == {[pressed |-> FALSE, changed |-> FALSE, cur |-> 0, last |-> 0]}

\* the object is in static storage: every member starts at zero
EnumInit == InitStatic /\ FLiM /\ ~UI /\ circular_buffer2(COE_NUM_ITEMS)

EnumNext ==
    \/ \E n \in 0 .. MaxMessages, sw \in NoSwitch :
          ProcessBegin(n, sw) /\ UNCHANGED bufVars
    \/ \E msg \in EnumFrames : ProcessFrame(msg) /\ UNCHANGED bufVars
    \/ ProcessEnd /\ UNCHANGED bufVars
    \/ Tick(EnumInstants) /\ UNCHANGED bufVars

EnumSpec == EnumInit /\ [][EnumNext]_vars

----------------------------------------------------------------------------
\* LearnSpec: a FLiM node of node number 260 taught and asked about events
\* by a configuration tool at CAN id 1.  Three events compete for the
\* entries of the table.

Events == {<<10, 20>>, <<10, 21>>, <<260, 20>>}

\* the event variables the tool writes: two values for variable 1, one for
\* variable 2
EvWrites == {<<1, 119>>, <<1, 9>>, <<2, 7>>}

\* a payload of opcode, node number, event number and two more bytes
EvPayload(opc, nn, en, d5, d6) ==
    <<opc, highByte(nn), lowByte(nn), highByte(en), lowByte(en), d5, d6, 0>>

EVLRNFrames ==
    {Frame(1, FALSE, FALSE, 7, EvPayload(OPC_EVLRN, ev[1], ev[2], w[1], w[2])) :
        ev \in Events, w \in EvWrites}

EVULNFrames ==
    {Frame(1, FALSE, FALSE, 5, EvPayload(OPC_EVULN, ev[1], ev[2], 0, 0)) :
        ev \in Events}

\* REVAL for us, and one for node 0, for every index up to EE_MAX_EVENTS (one
\* past the table) and for index 255
REVALFrames ==
    {Frame(1, FALSE, FALSE, 5, <<OPC_REVAL, highByte(260), lowByte(260), i, k,
                                 0, 0, 0>>) :
        i \in (0 .. EE_MAX_EVENTS) \cup {255}, k \in EvIndexes}
    \cup {Frame(1, FALSE, FALSE, 5, <<OPC_REVAL, 0, 0, 0, 1, 0, 0, 0>>)}

\* NNLRN, NNULN and NNCLR, for us and for node 0
LearnModeFrames ==
    {Frame(1, FALSE, FALSE, 3, Payload(o, nn, 0)) :
        o \in {OPC_NNLRN, OPC_NNULN, OPC_NNCLR}, nn \in NodeNums}

LearnFrames ==
    EVLRNFrames \cup EVULNFrames \cup REVALFrames \cup LearnModeFrames

LearnInit == InitStatic /\ FLiM /\ ~UI /\ circular_buffer2(COE_NUM_ITEMS)

LearnNext ==
    \/ \E n \in 0 .. MaxMessages : ProcessBegin(n, NoSwitch) /\ UNCHANGED bufVars
    \/ \E msg \in LearnFrames : ProcessFrame(msg) /\ UNCHANGED bufVars
    \/ ProcessEnd /\ UNCHANGED bufVars

LearnSpec == LearnInit /\ [][LearnNext]_vars

----------------------------------------------------------------------------
\* ConfigSpec: a FLiM node without user interface that receives CANID, RQNPN,
\* NVRD, NVSET, NNLRN and NNULN frames, for itself and for node 0

\* the CAN ids a CANID frame asks for: both sides of 1 and of 99
NewCanIds == {0, 1, 99, 100}
\* the parameter indexes asked for: the first, the last, the one after
ParamIndexes == {0, 8, 9}
\* the node variable indexes: up to one more than EE_NUM_NVS
NVIndexes == 0 .. EE_NUM_NVS + 1
NVValues == {0, 7}

ConfigFrames ==
    {Frame(1, FALSE, FALSE, 4, Payload(OPC_CANID, nn, c)) :
        nn \in NodeNums, c \in NewCanIds}
    \cup {Frame(1, FALSE, FALSE, 4, Payload(OPC_RQNPN, nn, i)) :
        nn \in NodeNums, i \in ParamIndexes}
    \cup {Frame(1, FALSE, FALSE, 4, Payload(OPC_NVRD, nn, i)) :
        nn \in NodeNums, i \in NVIndexes}
    \cup {Frame(1, FALSE, FALSE, 5,
                [Payload(OPC_NVSET, nn, i) EXCEPT ![5] = v]) :
        nn \in NodeNums, i \in NVIndexes, v \in NVValues}
    \cup {Frame(1, FALSE, FALSE, 3, Payload(o, 260, 0)) :
        o \in {OPC_NNLRN, OPC_NNULN}}

ConfigInit == InitStatic /\ FLiM /\ ~UI /\ circular_buffer2(COE_NUM_ITEMS)

ConfigNext ==
    \/ \E n \in 0 .. MaxMessages :
          ProcessBegin(n, NoSwitch) /\ UNCHANGED bufVars
    \/ \E msg \in ConfigFrames : ProcessFrame(msg) /\ UNCHANGED bufVars
    \/ ProcessEnd /\ UNCHANGED bufVars

ConfigSpec == ConfigInit /\ [][ConfigNext]_vars

----------------------------------------------------------------------------
\* ModeSpec: a node in static storage, with or without user interface, under
\* the switch, RQNN and SNN frames, and the clock around the 30 seconds

ModeInstants == {0, 29999, 30000, 59999, 60000}

ModeFrames ==
    {Frame(c, FALSE, FALSE, 3, Payload(OPC_RQNN, nn, 0)) :
        c \in CanIds, nn \in NodeNums}
    \cup {Frame(1, FALSE, FALSE, 3, Payload(OPC_SNN, 260, 0)),
          Frame(1, FALSE, FALSE, 5, Payload(OPC_ACON, 260, 0))}

ModeInit == InitStatic /\ circular_buffer2(COE_NUM_ITEMS)

ModeNext ==
    \/ \E n \in 0 .. MaxMessages, sw \in SwitchInputs :
          ProcessBegin(n, sw) /\ UNCHANGED bufVars
    \/ \E msg \in ModeFrames : ProcessFrame(msg) /\ UNCHANGED bufVars
    \/ ProcessEnd /\ UNCHANGED bufVars
    \/ Tick(ModeInstants) /\ UNCHANGED bufVars

ModeSpec == ModeInit /\ [][ModeNext]_vars

----------------------------------------------------------------------------
\* ReplySpec: a node with a switch, in SLiM or in FLiM, that is taken into
\* the mode change and into learn mode, is taught events and is asked every
\* question of the protocol, with its own node number and with another

\* the switch is left alone, or released after a second and a half
ReplySwitch == NoSwitch \cup {[pressed |-> FALSE, changed |-> TRUE, cur |-> 0, last |-> 1500]}

\* the requests without a parameter, for us and for node 0
QueryFrames ==
    {Frame(1, FALSE, FALSE, 3, Payload(o, nn, 0)) :
        o \in {OPC_RQNP, OPC_RQMN, OPC_RQEVN, OPC_NERD, OPC_NNEVN, OPC_QNN},
        nn \in NodeNums}

ReplyFrames ==
    LearnModeFrames \cup ModeFrames \cup QueryFrames
    \cup {m \in EVLRNFrames : D(m, 5) = 1 /\ D(m, 6) = 119}

ReplyInit == InitStatic /\ UI /\ circular_buffer2(COE_NUM_ITEMS)

ReplyNext ==
    \/ \E n \in 0 .. MaxMessages, sw \in ReplySwitch :
          ProcessBegin(n, sw) /\ UNCHANGED bufVars
    \/ \E msg \in ReplyFrames : ProcessFrame(msg) /\ UNCHANGED bufVars
    \/ ProcessEnd /\ UNCHANGED bufVars

ReplySpec == ReplyInit /\ [][ReplyNext]_vars

----------------------------------------------------------------------------
\* LiveSpec: a FLiM node without a switch, called for ever.  The code reads
\* millis() only in the differences millis() - CANenumTime and
\* millis() - timeOutTimer, which it compares with 100 and 30000; dt
\* milliseconds passing is these two differences growing by dt.  They are
\* kept here up to the two limits, so that the clock can advance for ever in
\* a finite number of states: millis() runs up to 30000 (Tick) and from then
\* on the two timers recede (Elapse).

LiveSteps == {50, 100}

Older(s, since, dt, limit) ==
    IF s.now - since + dt >= limit THEN s.now - limit ELSE since - dt

Elapse(dt) ==
    /\ now >= MODE_TIMEOUT
    /\ Commit([S EXCEPT !.CANenumTime = Older(S, @, dt, ENUM_WINDOW),
                        !.timeOutTimer = Older(S, @, dt, MODE_TIMEOUT)])
    /\ UNCHANGED <<pc, num_messages, mcount>>

\* responses of the peers 1 and 2, and ACON, SNN and ENUM from the CAN ids 1
\* and 5 (ours) with the node numbers 0 and 260 (ours)
LiveFrames ==
    {Frame(p, FALSE, FALSE, 0, BlankMsg.data) : p \in {1, 2}}
    \cup {Frame(c, FALSE, FALSE, 3, Payload(o, n, 0)) :
            c \in CanIds, o \in {OPC_ACON, OPC_SNN, OPC_ENUM}, n \in NodeNums}

\* the object is in static storage
LiveInit == InitStatic /\ FLiM /\ ~UI /\ circular_buffer2(COE_NUM_ITEMS)

LiveBegin ==
    \E n \in 0 .. MaxMessages, sw \in NoSwitch :
        ProcessBegin(n, sw) /\ UNCHANGED bufVars

LiveEnd == ProcessEnd /\ UNCHANGED bufVars

LiveElapse ==
    \/ Tick({MODE_TIMEOUT}) /\ UNCHANGED bufVars
    \/ \E dt \in LiveSteps : Elapse(dt) /\ UNCHANGED bufVars

LiveNext ==
    \/ LiveBegin
    \/ \E msg \in LiveFrames : ProcessFrame(msg) /\ UNCHANGED bufVars
    \/ LiveEnd
    \/ LiveElapse

\* process keeps being called and returns, and the clock keeps advancing
LiveSpec ==
    /\ LiveInit /\ [][LiveNext]_vars
    /\ WF_vars(LiveBegin) /\ WF_vars(LiveEnd) /\ WF_vars(LiveElapse)

----------------------------------------------------------------------------
\* SlimSpec: a SLiM node in static storage, with or without a switch, on a
\* bus that carries ENUM and ACON from the CAN ids 0 (its own), 1 and 5 and
\* the responses of the peers 1 and 2

SlimFrames ==
    {Frame(p, FALSE, FALSE, 0, BlankMsg.data) : p \in {1, 2}}
    \cup {Frame(c, FALSE, FALSE, 3, Payload(o, n, 0)) :
            c \in CanIds \cup {0}, o \in {OPC_ACON, OPC_ENUM}, n \in NodeNums}

SlimInit == InitStatic /\ ~FLiM /\ circular_buffer2(COE_NUM_ITEMS)

SlimNext ==
    \/ \E n \in 0 .. MaxMessages, sw \in SwitchInputs :
          ProcessBegin(n, sw) /\ UNCHANGED bufVars
    \/ \E msg \in SlimFrames : ProcessFrame(msg) /\ UNCHANGED bufVars
    \/ ProcessEnd /\ UNCHANGED bufVars
    \/ Tick(Instants) /\ UNCHANGED bufVars

SlimSpec == SlimInit /\ [][SlimNext]_vars

----------------------------------------------------------------------------
\* LeanSpec: a SLiM node of node number 0 in static storage, with the
\* switch, the frames and the instants of ModeSpec

LeanSpec == SlimInit /\ [][ModeNext]_vars

----------------------------------------------------------------------------
\* DrainSpec: the while loop of process with its two sources.  The driver
\* receives frames from the bus at any time; the application registers a
\* consume-own-events object and puts the node's own events into it.

\* process(num_messages) is called with num_messages in 0 .. MaxDrain, and
\* the driver holds up to MaxQueue frames
MaxDrain == 3
MaxQueue == 3

\* the frames by number: 1 a response of peer 1, 2 ENUM for us from CAN id 1,
\* 3 our own event ACON
FrameAt(k) ==
    CASE k = 1 -> Frame(1, FALSE, FALSE, 0, BlankMsg.data)
      [] k = 2 -> Frame(1, FALSE, FALSE, 3, Payload(OPC_ENUM, 260, 0))
      [] OTHER -> Frame(5, FALSE, FALSE, 3, Payload(OPC_ACON, 260, 0))

BusFrames == {1, 2}
OwnFrames == {3}

\* CBUSbase::consumeOwnEvents
consumeOwnEvents ==
    /\ ~coe_obj
    /\ coe_obj' = TRUE
    /\ UNCHANGED <<cbusVars, ringVars, rxq>>

\* the driver receives a frame
Receive(k) ==
    /\ Len(rxq) < MaxQueue
    /\ rxq' = Append(rxq, k)
    /\ UNCHANGED <<cbusVars, ringVars, coe_obj>>

\* CBUScoe::put
CoePut(k) ==
    /\ coe_obj
    /\ Put(k)
    /\ UNCHANGED <<cbusVars, srcVars>>

\* available(): the driver holds a frame
available == rxq # << >>

\* (a loopback buffer that is served when the driver holds nothing)
CoeAvailableLast == coe_obj /\ buf_available /\ ~available

\* coe_obj != NULL && coe_obj->available()
CoeAvailable == coe_obj /\ buf_available

\* the condition of the while loop
LoopCondition == (available \/ CoeAvailable) /\ mcount < num_messages

\* one turn of the while loop: the frame is taken from the loopback buffer
\* if it has one, else from the driver, and processed
DrainFrame ==
    /\ pc = "drain"
    /\ LoopCondition
    /\ IF CoeAvailable
       THEN /\ Get
            /\ Commit(process_single_message(S, FrameAt(buffer[tail])))
            /\ UNCHANGED srcVars
       ELSE /\ rxq' = Tail(rxq)
            /\ Commit(process_single_message(S, FrameAt(Head(rxq))))
            /\ UNCHANGED <<ringVars, coe_obj>>
    /\ mcount' = mcount + 1
    /\ UNCHANGED <<pc, num_messages>>

\* the loop is left when its condition is false
DrainEnd == ~LoopCondition /\ ProcessEnd /\ UNCHANGED bufVars

DrainInit == InitStatic /\ FLiM /\ ~UI /\ circular_buffer2(COE_NUM_ITEMS)

DrainNext ==
    \/ consumeOwnEvents
    \/ \E k \in BusFrames : Receive(k)
    \/ \E k \in OwnFrames : CoePut(k)
    \/ \E n \in 0 .. MaxDrain, sw \in NoSwitch :
          ProcessBegin(n, sw) /\ UNCHANGED bufVars
    \/ DrainFrame
    \/ DrainEnd

DrainSpec == DrainInit /\ [][DrainNext]_vars

----------------------------------------------------------------------------
\* EventSpec: a FLiM node in static storage whose sketch registers event
\* handlers, taught the long event (10, 20) and the short event (0, 20), on a
\* bus that carries every accessory event opcode for three events

\* CBUSbase::setEventHandler, the two forms
setEventHandler ==
    /\ pc = "idle" /\ ~eventhandler
    /\ Commit([S EXCEPT !.eventhandler = TRUE])
    /\ UNCHANGED <<pc, num_messages, mcount>>

setEventHandlerEx ==
    /\ pc = "idle" /\ ~eventhandlerex
    /\ Commit([S EXCEPT !.eventhandlerex = TRUE])
    /\ UNCHANGED <<pc, num_messages, mcount>>

AccessoryFrames ==
    {Frame(1, FALSE, FALSE, 5, EvPayload(o, ev[1], ev[2], 0, 0)) :
        o \in LongEventOpcodes \cup ShortEventOpcodes,
        ev \in {<<10, 20>>, <<10, 21>>, <<0, 20>>}}

EventFrames ==
    AccessoryFrames
    \cup {Frame(1, FALSE, FALSE, 3, Payload(OPC_NNLRN, 260, 0)),
          Frame(1, FALSE, FALSE, 7, EvPayload(OPC_EVLRN, 10, 20, 1, 119)),
          Frame(1, FALSE, FALSE, 7, EvPayload(OPC_EVLRN, 0, 20, 1, 9)),
          Frame(1, FALSE, FALSE, 5, EvPayload(OPC_EVULN, 10, 20, 0, 0))}

EventInit == InitStatic /\ FLiM /\ ~UI /\ circular_buffer2(COE_NUM_ITEMS)

EventNext ==
    \/ setEventHandler /\ UNCHANGED bufVars
    \/ setEventHandlerEx /\ UNCHANGED bufVars
    \/ \E n \in 0 .. MaxMessages, sw \in NoSwitch :
          ProcessBegin(n, sw) /\ UNCHANGED bufVars
    \/ \E msg \in EventFrames : ProcessFrame(msg) /\ UNCHANGED bufVars
    \/ ProcessEnd /\ UNCHANGED bufVars

EventSpec == EventInit /\ [][EventNext]_vars

----------------------------------------------------------------------------
\* BufSpec: a ring of any capacity in 1 .. MaxCapacity under put, get and
\* peek; BufAllSpec: the same with clear

BufInit ==
    /\ InitStatic /\ ~FLiM /\ ~UI
    /\ \E c \in 1 .. MaxCapacity : circular_buffer2(c)

BufNext ==
    \/ Put(puts + 1) /\ UNCHANGED <<cbusVars, srcVars>>
    \/ Get /\ UNCHANGED <<cbusVars, srcVars>>
    \/ Peek /\ UNCHANGED <<cbusVars, srcVars>>

BufSpec == BufInit /\ [][BufNext]_vars

BufAllNext ==
    \/ BufNext
    \/ Clear /\ UNCHANGED <<cbusVars, srcVars>>

BufAllSpec == BufInit /\ [][BufAllNext]_vars

----------------------------------------------------------------------------
\* Claims about enumeration (EnumSpec)

\* a cycle begun by CANenumeration has just been completed by checkCANenum
CycleCompleted == committed # NoCommit /\ started

\* the smallest CAN id in 1 .. 127 that is not in ids, 0 when there is none
LowestFree(ids) ==
    LET free == (1 .. MAX_CANID) \ ids
    IN  IF free = {} THEN 0 ELSE CHOOSE p \in free : \A q \in free : p <= q

\* C1: when a cycle completes, the CAN id committed is the smallest id in
\* 1 .. 127 that no peer advertised during the cycle.
C1_CommitsLowestFree ==
    CycleCompleted => committed = LowestFree(heard) /\ CANID = committed

\* C2: a peer whose response was stored during the cycle is never the id
\* that the cycle selects and commits.
C2_NeverARecordedPeer ==
    CycleCompleted => committed \notin heard /\ CANID \notin heard

C2_Witness ==
    CycleCompleted /\ {1, 2, 4} \subseteq heard /\ CANID = committed

\* C3: the CAN id a completed cycle commits lies in 1 .. 127.
C3_CommittedInRange ==
    CycleCompleted => committed \in 1 .. MAX_CANID /\ CANID \in 1 .. MAX_CANID

\* C4: a cycle in which no response from a peer id above 0 was received
\* commits CAN id 1.
C4_NoResponseGivesOne ==
    CycleCompleted /\ heard = {} => committed = 1 /\ CANID = 1

C4_Witness == CycleCompleted /\ heard = {} /\ CANID = 1

\* the responses of the peers 0 .. MaxPeer: length 0, not remote, standard
ResponseFrames ==
    {Frame(p, FALSE, FALSE, 0, BlankMsg.data) : p \in 0 .. MaxPeer}

\* C28: while a cycle is running and less than 100 ms old, checkCANenum
\* changes nothing and a response of a peer changes enum_responses only; the
\* cycle ends, with a CAN id committed, at the end of the first call of
\* process that finds it 100 ms old or older, and nowhere else.
C28_WindowRespected ==
    [][/\ bCANenum =>
           /\ now - CANenumTime < ENUM_WINDOW => checkCANenum(S) = S
           /\ \A msg \in ResponseFrames :
                 [process_single_message(S, msg)
                    EXCEPT !.enum_responses = enum_responses,
                           !.heard = heard] = S
           /\ (pc = "drain" /\ pc' = "idle"
                  /\ now - CANenumTime >= ENUM_WINDOW)
                 => ~bCANenum' /\ committed' # NoCommit /\ CANID' = committed'
       /\ (CANID' # CANID \/ (bCANenum /\ ~bCANenum'))
           => /\ pc = "drain" /\ pc' = "idle"
              /\ bCANenum /\ now - CANenumTime >= ENUM_WINDOW
     ]_vars

\* a cycle that heard the peers 1 and 2 has ended when it was exactly 100 ms
\* old
C28_Witness ==
    /\ committed # NoCommit /\ ~bCANenum /\ started /\ now = ENUM_WINDOW
    /\ heard = {1, 2} /\ pc = "idle"

\* C27: a cycle that has started ends with a CAN id committed, whatever frames
\* arrive and whatever the switch does, when process keeps being called and
\* the clock keeps advancing.
C27_CycleCompletes ==
    bCANenum ~> (~bCANenum /\ committed # NoCommit)

----------------------------------------------------------------------------
\* Claims about the dispatcher (Spec)

\* the zero length remote frames among the frames sent
Probes(o) == {k \in 1 .. Len(o) : o[k].rtr /\ o[k].len = 0}

\* a standard frame with a payload and the opcode given
IsStd(msg, opc) == ~msg.ext /\ msg.len > 0 /\ D(msg, 0) = opc

\* the frames with a payload, the frames without, the standard SNN frames
PayloadFrames == {m \in Frames : m.len > 0}
EmptyFrames == {m \in Frames : m.len = 0}
SNNFrames == {m \in Frames : IsStd(m, OPC_SNN)}
ExtendedFrames == {m \in Frames : m.ext}

\* a turn of the while loop is possible
InLoop == pc = "drain" /\ mcount < num_messages

\* what handling an SNN frame leaves in s1 when bModeChanging was set
SNNEffect(msg, s1) ==
    /\ s1.FLiM
    /\ s1.nodeNum = FrameNN(msg)
    /\ ~s1.bModeChanging
    /\ UI => s1.ledMode = MODE_FLIM
    /\ s1.bCANenum /\ s1.enum_responses = NoResponses
    /\ s1.CANenumTime = now
    /\ Len(s1.out) = 2
    /\ s1.out[1].data = <<OPC_NNACK, highByte(s1.nodeNum), lowByte(s1.nodeNum)>>
    /\ Probes(s1.out) = {2}

\* C5: handling an SNN frame while bModeChanging leaves FLiM set, the node
\* number equal to the one in the frame, bModeChanging clear, the LEDs (if
\* the module has them) showing FLiM, and an enumeration cycle begun: the
\* NNACK is followed by one probe and bCANenum is set.
C5_SNNEntersFLiM ==
    InLoop /\ bModeChanging =>
        \A msg \in SNNFrames : SNNEffect(msg, process_single_message(S, msg))

C5_Witness ==
    /\ FLiM /\ nodeNum = 260 /\ ~bModeChanging /\ bCANenum /\ UI
    /\ ledMode = MODE_FLIM
    /\ Len(out) = 2 /\ out[1].data[1] = OPC_NNACK /\ Probes(out) = {2}

\* what handling a clashing frame leaves in s1: enumeration_required set, and
\* the frame processed as any other (an SNN is obeyed, and no cycle starts
\* but by SNN or ENUM)
ClashEffect(msg, s1) ==
    /\ s1.enumeration_required
    /\ IsStd(msg, OPC_SNN) /\ bModeChanging
         => s1.nodeNum = FrameNN(msg) /\ s1.FLiM
    /\ ~(IsStd(msg, OPC_SNN) \/ IsStd(msg, OPC_ENUM))
         => /\ Probes(s1.out) = {}
            /\ s1.bCANenum = bCANenum
            /\ s1.enum_responses = enum_responses

\* a frame with a payload from our CAN id with another node number has
\* that effect
ClashSetsFlag ==
    InLoop =>
      \A msg \in PayloadFrames :
        getCANID(msg.id) = CANID /\ FrameNN(msg) # nodeNum
        => ClashEffect(msg, process_single_message(S, msg))

\* a frame of length 0 leaves enumeration_required as it is
EmptyKeepsFlag ==
    InLoop =>
      \A msg \in EmptyFrames :
        process_single_message(S, msg).enumeration_required
          = enumeration_required

\* a release of the switch after less than 500 ms, seen by a FLiM node
QuickRelease(sw) == UI /\ FLiM /\ sw.changed /\ ~sw.pressed /\ sw.last < 500

\* the call of process that finds enumeration_required set clears it and
\* starts a cycle in the part of process that precedes the while loop, with
\* the probes counted by Count
DeferredStart(Count(_)) ==
    pc = "idle" /\ enumeration_required =>
      \A sw \in SwitchInputs :
        LET s1 == OnSwitch(StartRequiredEnum(S), sw)
        IN  /\ ~s1.enumeration_required
            /\ s1.bCANenum /\ s1.enum_responses = NoResponses
            /\ s1.CANenumTime = now
            /\ Cardinality(Probes(s1.out)) = Count(sw)

OneProbe(sw) == 1
ProbesOfCall(sw) == IF QuickRelease(sw) THEN 2 ELSE 1

\* C6 as stated: a frame with a payload from our CAN id with another node
\* number sets enumeration_required and is still processed; the next call of
\* process clears the flag and starts exactly one cycle, with one probe,
\* before any frame is drained; a zero length frame never sets the flag.
C6_ClashDefersOneEnumeration ==
    ClashSetsFlag /\ EmptyKeepsFlag /\ DeferredStart(OneProbe)

\* C6 as amended: the same, but the next call of process emits one probe
\* for the deferred enumeration and one more, starting the cycle again, when
\* in that call the switch reports a release after less than 500 ms on a
\* node in FLiM.
C6_ClashDefersEnumeration ==
    ClashSetsFlag /\ EmptyKeepsFlag /\ DeferredStart(ProbesOfCall)

\* a clash was seen by a node of node number 260 and CAN id 5, and the next
\* call of process has started the cycle
C6_Witness ==
    /\ started /\ pc = "drain" /\ mcount = 0 /\ ~enumeration_required
    /\ nodeNum = 260 /\ CANID = 5 /\ bCANenum /\ heard = {}
    /\ Len(out) = 1 /\ Probes(out) = {1}

\* C7: handling a frame whose extended flag is set sends nothing and
\* changes no flag, no bit of enum_responses and no value of the store.
C7_ExtendedIgnored ==
    [][pc = "drain" =>
        \A msg \in ExtendedFrames :
          ProcessFrame(msg)
          => /\ out' = << >>
             /\ UNCHANGED <<enumeration_required, bCANenum, bModeChanging,
                            bLearn, enum_responses, cfgVars>>]_vars

\* the remote frames of length 0 among the frames received
ProbeFrames == {m \in Frames : m.rtr /\ m.len = 0}

\* the answer to a probe: zero length, not remote, standard, our CAN id
ProbeReply ==
    [id |-> makeHeader_impl(CANID, DEFAULT_PRIORITY), rtr |-> FALSE,
     ext |-> FALSE, len |-> 0, data |-> << >>]

\* C22: a remote frame of length 0 is answered with exactly one frame of
\* length 0, not remote, standard, with our CAN id, and nothing else of the
\* dispatcher or of the store changes, whether we are enumerating or not.
C22_ProbeAnswered ==
    \A msg \in ProbeFrames :
      LET s1 == process_single_message(S, msg)
      IN  s1.out = <<ProbeReply>> /\ [s1 EXCEPT !.out = << >>] = S

\* a probe has been answered in the middle of our own enumeration, with
\* responses already recorded
C22_Witness ==
    /\ out = <<ProbeReply>> /\ bCANenum /\ started /\ heard # {}
    /\ pc = "drain"

ENUMFrames == {m \in Frames : IsStd(m, OPC_ENUM)}

\* the probe of CANenumeration: remote, standard, length 0, our CAN id
EnumProbe ==
    [id |-> makeHeader_impl(CANID, DEFAULT_PRIORITY), rtr |-> TRUE,
     ext |-> FALSE, len |-> 0, data |-> << >>]

\* C26: an ENUM frame starts a cycle (responses cleared, start time taken,
\* one probe) if and only if it carries our node number, comes from another
\* CAN id than ours and no cycle is running; otherwise, and so while a cycle
\* is running, it leaves enum_responses and CANenumTime as they are and
\* sends no probe.
C26_EnumStartsOneCycle ==
    \A msg \in ENUMFrames :
      LET s1 == process_single_message(S, msg)
      IN  IF /\ FrameNN(msg) = nodeNum
             /\ getCANID(msg.id) # CANID
             /\ ~bCANenum
          THEN /\ s1.bCANenum /\ s1.CANenumTime = now
               /\ s1.enum_responses = NoResponses
               /\ s1.out = <<EnumProbe>>
          ELSE /\ s1.bCANenum = bCANenum
               /\ s1.CANenumTime = CANenumTime
               /\ s1.enum_responses = enum_responses
               /\ s1.out = << >>

\* a frame handled by a FLiM node has started a cycle on its own (an SNN
\* would have sent NNACK with the probe), at a time other than 0
C26_Witness ==
    /\ pc = "drain" /\ mcount > 0 /\ out = <<EnumProbe>>
    /\ bCANenum /\ CANenumTime = now /\ now > 0
    /\ enum_responses = NoResponses /\ FLiM /\ nodeNum = 260

----------------------------------------------------------------------------
\* Claims about circular_buffer2 (BufSpec, BufAllSpec)

\* the items held, oldest first
RingContents == [k \in 1 .. size |-> buffer[(tail + k - 1) % capacity]]

Min(a, b) == IF a < b THEN a ELSE b

\* C8: after every put and get, puts = gets + size + overflows, and hwm is
\* the largest size the ring has had.
C8_CountersBalance ==
    /\ puts = gets + size + overflows
    /\ hwm = maxsize

C8_Witness == overflows > 0 /\ gets > 1 /\ size > 0 /\ size < hwm

\* C9: the ring holds, oldest first, the frames put that were neither got
\* nor overwritten; get returns the oldest; a put on a full ring gives up
\* the oldest frame, keeps the size and counts one overflow; n puts with no
\* get leave the last min(n, capacity) frames and max(0, n - capacity)
\* overflows.
C9_FifoModuloOverwrite ==
    /\ [](RingContents = fifo)
    /\ [](gets = 0 =>
            /\ RingContents =
                 [k \in 1 .. Min(puts, capacity) |->
                     puts - Min(puts, capacity) + k]
            /\ overflows = puts - Min(puts, capacity)
            /\ size = Min(puts, capacity)
            /\ hwm = size)
    /\ [][gets' = gets + 1 => got' = Head(fifo) /\ fifo' = Tail(fifo)]_vars
    /\ [][puts' = puts + 1 /\ size = capacity
            => /\ size' = capacity
               /\ overflows' = overflows + 1
               /\ RingContents' = Append(Tail(fifo), puts')]_vars

C9_Witness ==
    /\ capacity = 4 /\ puts = 6 /\ gets = 0
    /\ RingContents = <<3, 4, 5, 6>>
    /\ overflows = 2 /\ hwm = 4 /\ size = 4

\* C10: after any put, get, peek and clear, 0 <= size <= capacity, full()
\* holds exactly when size = capacity, and empty() holds exactly when
\* size = 0, which is exactly when available() is false.
C10_SizeFullEmpty ==
    /\ size \in 0 .. capacity
    /\ buf_full <=> size = capacity
    /\ buf_empty <=> size = 0
    /\ size = 0 <=> ~buf_available

\* a ring emptied by clear: frames were put, none was got, none is held
C10_Witness == puts > capacity /\ gets = 0 /\ size = 0 /\ buf_empty

----------------------------------------------------------------------------
\* Claims about the event table (LearnSpec)

\* the frames sent are one frame of the opcode given
SentOne(o, opc) == Len(o) = 1 /\ o[1].len > 0 /\ o[1].data[1] = opc

\* REVAL addressed to node nn, for event variable k of the entry index
RevalFrame(nn, index, k) ==
    Frame(1, FALSE, FALSE, 5,
          <<OPC_REVAL, highByte(nn), lowByte(nn), index, k, 0, 0, 0>>)

\* what a node in state s sends in answer to REVAL(find_existing(nn, en), k)
RevalAnswer(s, nn, en, k) ==
    process_single_message(
        [s EXCEPT !.out = << >>],
        RevalFrame(s.nodeNum, findExistingEvent(s.eeprom, nn, en), k)).out

\* the frames sent are one NEVAL of 6 bytes whose value byte is v
IsNeval(o, v) ==
    SentOne(o, OPC_NEVAL) /\ o[1].len = 6 /\ o[1].data[6] = v

\* find_existing(nn, en) names an entry of the table of state s
Found(s, nn, en) == findExistingEvent(s.eeprom, nn, en) < EE_MAX_EVENTS

C12_LearnedEventIsFound ==
    bLearn =>
      \A msg \in EVLRNFrames :
        LET s1 == process_single_message(S, msg)
        IN  SentOne(s1.out, OPC_WRACK) => Found(s1, FrameNN(msg), FrameEN(msg))

\* the only frame sent is CMDERR with the error number code
SentCmdErr(o, code) ==
    SentOne(o, OPC_CMDERR) /\ o[1].len = 4 /\ o[1].data[4] = code

\* the entries of the event table and of its hash table other than index
OtherEntries(e, index) ==
    [j \in (0 .. EE_MAX_EVENTS - 1) \ {index} |->
        <<e.events[j], e.evhashtbl[j]>>]

\* C13: in learn mode EVULN(nn, en) for an event in the table clears its
\* entry and its hash entry and is answered with WRACK; the event is not
\* found afterwards and every other entry is as it was. For an event that
\* is not in the table it is answered with CMDERR(10) and the table is
\* unchanged.
C13_Unlearn ==
    bLearn =>
      \A msg \in EVULNFrames :
        LET s1 == process_single_message(S, msg)
            index == findExistingEvent(eeprom, FrameNN(msg), FrameEN(msg))
        IN  IF index < EE_MAX_EVENTS
            THEN /\ SentOne(s1.out, OPC_WRACK)
                 /\ s1.eeprom.events[index] = ErasedEvent
                 /\ s1.eeprom.evhashtbl[index] = 0
                 /\ ~Found(s1, FrameNN(msg), FrameEN(msg))
                 /\ OtherEntries(s1.eeprom, index) = OtherEntries(eeprom, index)
            ELSE SentCmdErr(s1.out, 10) /\ s1.eeprom = eeprom

\* (10, 20) and (10, 21) were learned into the entries 0 and 1 and (10, 20)
\* has been unlearned: entry 0 and its hash entry are cleared, (10, 20) is
\* not found, and (10, 21) is still in entry 1 with its event variable
C13_Witness ==
    /\ bLearn /\ SentOne(out, OPC_WRACK)
    /\ eeprom.events[0] = ErasedEvent /\ eeprom.evhashtbl[0] = 0
    /\ ~Found(S, 10, 20)
    /\ findExistingEvent(eeprom, 10, 21) = 1
    /\ getEventEVval(eeprom, 1, 1) = 119

\* entry index of the event table exists and holds an event
Occupied(e, index) ==
    index < EE_MAX_EVENTS /\ e.events[index].hdr # NoHeader

----------------------------------------------------------------------------
\* Claims about the configuration requests (ConfigSpec)

FramesOf(opc) == {m \in ConfigFrames : m.data[1] = opc}
ForUs(msg) == FrameNN(msg) = nodeNum

\* what the configuration requests must leave alone, the CAN id apart
ConfigOf(s) == <<s.nodeNum, s.FLiM, s.eeprom, s.mparams, s.bLearn,
                 s.bModeChanging>>

IsParan(o, index, value) ==
    /\ SentOne(o, OPC_PARAN) /\ o[1].len = 5
    /\ o[1].data[4] = index /\ o[1].data[5] = value

\* C15: an RQNPN frame for this node with an index above params[0] is
\* answered with CMDERR(9); with an index up to params[0], params[0]
\* included, it is answered with PARAN carrying the index and params[index].
\* Neither changes the configuration.
C15_ParamIndex ==
    \A msg \in FramesOf(OPC_RQNPN) :
      LET s1 == process_single_message(S, msg)
          index == D(msg, 3)
      IN  /\ ConfigOf(s1) = ConfigOf(S) /\ s1.CANID = CANID
          /\ ForUs(msg) =>
                IF index > mparams[0] THEN SentCmdErr(s1.out, 9)
                ELSE IsParan(s1.out, index, mparams[index])

\* the node in learn mode has answered a request for the parameter
\* params[0] = 8, the flags, bit 5 set
C15_Witness == bLearn /\ mparams[0] = 8 /\ IsParan(out, 8, 40)

\* the only frame sent is NVANS with the index and the value
IsNvans(o, index, value) ==
    /\ SentOne(o, OPC_NVANS) /\ o[1].len = 5
    /\ o[1].data[4] = index /\ o[1].data[5] = value

NvrdFrame(nn, index) == Frame(1, FALSE, FALSE, 4, Payload(OPC_NVRD, nn, index))

----------------------------------------------------------------------------
\* Claims about the mode changes (ModeSpec)

\* the positions in o of the frames with opcode opc
Sent(o, opc) == {i \in 1 .. Len(o) : o[i].len > 0 /\ o[i].data[1] = opc}

\* a step that is the end of a call of process
IsEnd == pc = "drain" /\ pc' = "idle"

\* C18: while the mode change is pending, the end of a call of process less
\* than 30000 ms after its start leaves bModeChanging set; the first one at
\* 30000 ms or more clears it, leaves the node number, the mode and the CAN
\* id as they are, sends nothing and shows the stored mode; and nothing but
\* the timeout, an SNN or RQNN (both answered with NNACK) or the switch
\* (NNREL) clears it.
C18_ModeTimeout ==
    [][bModeChanging =>
        /\ (IsEnd /\ now - timeOutTimer < MODE_TIMEOUT)
              => bModeChanging' /\ ~timedOut'
        /\ (IsEnd /\ now - timeOutTimer >= MODE_TIMEOUT)
              => /\ ~bModeChanging' /\ timedOut'
                 /\ nodeNum' = nodeNum /\ FLiM' = FLiM
                 /\ CANID' = checkCANenum(S).CANID
                 /\ out' = << >>
                 /\ UI => ledMode' = ModeOf(FLiM)
        /\ ~bModeChanging'
              => \/ timedOut'
                 \/ Sent(out', OPC_NNACK) # {}
                 \/ Sent(out', OPC_NNREL) # {}
     ]_vars

\* a virgin node has given up at exactly 30000 ms and shows SLiM
C18_Witness ==
    /\ timedOut /\ ~bModeChanging /\ now - timeOutTimer = MODE_TIMEOUT
    /\ UI /\ ledMode = MODE_SLIM /\ nodeNum = 0 /\ ~FLiM /\ CANID = 0

RQNNFrames == {m \in ModeFrames : m.data[1] = OPC_RQNN}

\* the only frame sent is NNACK with the node number nn
IsNnack(o, nn) ==
    /\ SentOne(o, OPC_NNACK) /\ o[1].len = 3
    /\ o[1].data[2] = highByte(nn) /\ o[1].data[3] = lowByte(nn)

C20_RevertSLiM ==
    [][(Sent(out', OPC_NNREL) # {} \/ (FLiM /\ ~FLiM')) =>
        /\ FLiM /\ ~FLiM'
        /\ nodeNum' = 0 /\ CANID' = 0 /\ ~bModeChanging'
        /\ Cardinality(Sent(out', OPC_NNREL)) = 1
        /\ \A i \in Sent(out', OPC_NNREL) :
              /\ out'[i].len = 3
              /\ out'[i].data = <<OPC_NNREL, highByte(nodeNum), lowByte(nodeNum)>>
     ]_vars

\* the node 260 has reverted: NNREL for 260 sent, configuration reset
C20_Witness ==
    /\ Sent(out, OPC_NNREL) # {}
    /\ out[Len(out)].data = <<OPC_NNREL, highByte(260), lowByte(260)>>
    /\ nodeNum = 0 /\ CANID = 0 /\ ~FLiM /\ ~bModeChanging

\* the switch reports a release after a hold of t ms
Released(t) == [pressed |-> FALSE, changed |-> TRUE, cur |-> 0, last |-> t]

\* the frame o ends with: opcode opc and the node number nn
EndsWith(o, opc, nn) ==
    /\ Len(o) > 0 /\ o[Len(o)].len = 3
    /\ o[Len(o)].data = <<opc, highByte(nn), lowByte(nn)>>

\* the module has entered the mode change at s1: flag, timer, RQNN
Transitioning(s0, s1) ==
    /\ s1.bModeChanging /\ s1.timeOutTimer = now
    /\ Len(s1.out) = Len(s0.out) + 1 /\ EndsWith(s1.out, OPC_RQNN, s0.nodeNum)
    /\ s1.nodeNum = s0.nodeNum /\ s1.FLiM = s0.FLiM

\* the module has reverted to SLiM at s1
Reverted(s0, s1) ==
    /\ ~s1.FLiM /\ s1.nodeNum = 0 /\ s1.CANID = 0 /\ ~s1.bModeChanging
    /\ Len(s1.out) = Len(s0.out) + 1 /\ EndsWith(s1.out, OPC_NNREL, s0.nodeNum)

\* an enumeration cycle has started at s1
CycleStarted(s0, s1) ==
    /\ s1.bCANenum /\ s1.CANenumTime = now
    /\ Len(s1.out) = Len(s0.out) + 1 /\ Probes(s1.out) # Probes(s0.out)

\* what the release of the switch does in a call of process, for a long
\* hold as IsLong says
SwitchRule(IsLong(_)) ==
    UI =>
      \A t \in PressTimes :
        LET s0 == StartRequiredEnum(S)
            s1 == OnSwitch(s0, Released(t))
        IN  /\ IsLong(t) => IF ~FLiM THEN Transitioning(s0, s1)
                                     ELSE Reverted(s0, s1)
            /\ (t >= 1000 /\ t <= 1999) => Transitioning(s0, s1)
            /\ t < 500 => IF FLiM THEN CycleStarted(s0, s1) ELSE s1 = s0

AtLeastHold(t) == t >= SW_TR_HOLD
MoreThanHold(t) == t > SW_TR_HOLD

\* C23 as stated: a release after a hold of 6000 ms or more enters the mode
\* change in SLiM (RQNN with the current node number, bModeChanging, timer)
\* and reverts to SLiM in FLiM; a release after 1000 .. 1999 ms enters the
\* mode change; a release after less than 500 ms starts an enumeration in
\* FLiM only.
C23_HoldAtLeastSixSeconds == SwitchRule(AtLeastHold)

\* C23 as amended: the same for a hold of more than 6000 ms; a release after
\* exactly 6000 ms, like one after 500 .. 999 or 2000 .. 5999 ms, does nothing.
C23_HoldMoreThanSixSeconds ==
    /\ SwitchRule(MoreThanHold)
    /\ UI => \A t \in PressTimes :
                (t >= 500 /\ t < 1000) \/ (t >= 2000 /\ t <= SW_TR_HOLD)
                  => OnSwitch(StartRequiredEnum(S), Released(t))
                       = StartRequiredEnum(S)

\* a SLiM node has entered the mode change, at a time other than 0
C23_Witness ==
    /\ UI /\ bModeChanging /\ ~FLiM /\ now # 0 /\ timeOutTimer = now
    /\ EndsWith(out, OPC_RQNN, 0) /\ ledMode = MODE_CHANGING

\* SNN, RQNP and RQMN frames from both CAN ids, with both node numbers
SetupFrames ==
    {Frame(c, FALSE, FALSE, 3, Payload(o, nn, 0)) :
        c \in CanIds, o \in {OPC_SNN, OPC_RQNP, OPC_RQMN}, nn \in NodeNums}

\* C25: while no mode change is pending, an SNN, RQNP or RQMN frame is not
\* answered and leaves the node number, the mode, the CAN id, bCANenum and
\* bModeChanging as they are.
C25_SetupOnlyInTransition ==
    ~bModeChanging =>
      \A msg \in SetupFrames :
        LET s1 == process_single_message(S, msg)
        IN  /\ s1.out = << >>
            /\ s1.nodeNum = nodeNum /\ s1.FLiM = FLiM /\ s1.CANID = CANID
            /\ s1.bCANenum = bCANenum /\ ~s1.bModeChanging

\* a mode change of a SLiM node has ended 30 seconds or more ago, and a
\* frame handled since has left the node in SLiM without a node number
C25_Witness ==
    /\ UI /\ ~bModeChanging /\ ~FLiM /\ nodeNum = 0
    /\ timeOutTimer > 0 /\ now - timeOutTimer >= MODE_TIMEOUT
    /\ pc = "drain" /\ mcount > 0 /\ out = << >>

----------------------------------------------------------------------------
\* Claims about the operation codes as a whole

\* a frame of every operation code of the switch, and an accessory event
RequestFrames ==
    LearnFrames \cup ConfigFrames \cup ModeFrames \cup QueryFrames
    \cup {Frame(c, FALSE, FALSE, 3, Payload(o, nn, 0)) :
            c \in CanIds, o \in {OPC_SNN, OPC_ENUM}, nn \in NodeNums}

\* the headers, the event variables and the hash entries
TableOf(e) == <<e.events, e.evhashtbl>>

\* C21: outside learn mode EVLRN, EVULN and NNCLR leave the event table
\* (headers, event variables, hash entries) as it is, and no other operation
\* code changes it in any state; bLearn changes only on an NNLRN or NNULN
\* with our node number.
C21_TableOnlyInLearnMode ==
    \A msg \in RequestFrames :
      LET s1 == process_single_message(S, msg)
          opc == D(msg, 0)
      IN  /\ (~bLearn \/ opc \notin {OPC_EVLRN, OPC_EVULN, OPC_NNCLR})
                => TableOf(s1.eeprom) = TableOf(eeprom)
          /\ s1.bLearn # bLearn
                => opc \in {OPC_NNLRN, OPC_NNULN} /\ FrameNN(msg) = nodeNum

\* the node has learned (10, 20) and has left learn mode
C21_Witness ==
    /\ ~bLearn /\ bitRead(mparams[8], 5) = 0
    /\ Found(S, 10, 20) /\ getEventEVval(eeprom, 0, 1) = 119

\* the responses that have node number fields
NNResponses ==
    {OPC_WRACK, OPC_CMDERR, OPC_NNACK, OPC_PARAN, OPC_NVANS, OPC_NUMEV,
     OPC_EVNLF, OPC_NEVAL, OPC_ENRSP, OPC_PNN}

\* every frame of o that is one of these responses carries nn, high byte
\* first
CarryNN(o, nn) ==
    \A i \in 1 .. Len(o) :
      (o[i].len > 0 /\ o[i].data[1] \in NNResponses)
        => /\ o[i].len >= 3
           /\ o[i].data[2] = highByte(nn) /\ o[i].data[3] = lowByte(nn)

\* C24: every WRACK, CMDERR, NNACK, PARAN, NVANS, NUMEV, EVNLF, NEVAL, ENRSP
\* and PNN sent carries in data[1..2] the node number the module has when it
\* sends it, high byte first, whatever the frame that asked for it.
C24_ResponsesCarryNodeNumber ==
    /\ CarryNN(out, nodeNum)
    /\ \A msg \in RequestFrames :
         LET s1 == process_single_message(S, msg)
         IN  CarryNN(s1.out, s1.nodeNum)

\* the node 260 has answered NERD with the two events of its table
C24_Witness ==
    /\ nodeNum = 260 /\ Len(out) = 2
    /\ \A i \in 1 .. 2 : out[i].len = 8 /\ out[i].data[1] = OPC_ENRSP
    /\ CarryNN(out, 260)

----------------------------------------------------------------------------
\* Claims about a node in SLiM (SlimSpec)

\* C30: a cycle is started only in FLiM: no step of a node that is in SLiM
\* after it sends a probe, starts a cycle or commits a CAN id chosen by
\* enumeration.
C30_EnumerationOnlyInFLiM ==
    [][~FLiM' =>
          /\ Probes(out') = {}
          /\ bCANenum' => bCANenum
          /\ committed' = NoCommit
     ]_vars

----------------------------------------------------------------------------
\* Claims about the while loop of process (DrainSpec)

\* C29: in one call process(num_messages) at most num_messages frames are
\* processed, none when num_messages is 0; a frame is taken from the driver
\* only when the loopback buffer has none, and it is the oldest one; a
\* frame is taken from the loopback buffer only by a turn of the loop; and
\* the frames not taken when the call returns stay where they are.
C29_DrainBounded ==
    [][/\ mcount' <= num_messages'
       /\ mcount' # mcount /\ pc' = "drain"
            => /\ mcount < num_messages /\ mcount' = mcount + 1
               /\ \/ /\ ~(coe_obj /\ size > 0)
                     /\ rxq # << >> /\ rxq' = Tail(rxq)
                     /\ UNCHANGED ringVars
                     /\ out' = process_single_message(S, FrameAt(Head(rxq))).out
                  \/ /\ coe_obj /\ size > 0
                     /\ rxq' = rxq
                     /\ gets' = gets + 1 /\ size' = size - 1
                     /\ got' = buffer[tail]
                     /\ out' = process_single_message(S, FrameAt(got')).out
       /\ Len(rxq') < Len(rxq) \/ gets' # gets
            => pc = "drain" /\ pc' = "drain" /\ mcount' = mcount + 1
       /\ pc = "drain" /\ pc' = "idle" => UNCHANGED bufVars
     ]_vars

\* process(2) has taken one frame from the loopback buffer and then one from
\* the driver, which still holds a frame
C29_Witness ==
    /\ pc = "drain" /\ num_messages = 2 /\ mcount = 2
    /\ coe_obj /\ gets = 1 /\ size = 0
    /\ Len(rxq) = 1

----------------------------------------------------------------------------
\* Claims about a full event table (LearnSpec)

\* no entry of the hash table is zero
TableFull(e) == findEventSpace(e) >= EE_MAX_EVENTS

\* C31: in learn mode, EVLRN for an event that is not in the table, when
\* the table has no free entry, is answered with CMDERR(10) and leaves the
\* table and the event variables as they are; EVLRN for an event that is in
\* the table is answered with WRACK and written to its entry, also when the
\* table is full.
C31_FullTableRefuses ==
    bLearn =>
      \A msg \in EVLRNFrames :
        LET s1 == process_single_message(S, msg)
            found == findExistingEvent(eeprom, FrameNN(msg), FrameEN(msg))
        IN  /\ found >= EE_MAX_EVENTS /\ TableFull(eeprom)
                 => SentCmdErr(s1.out, 10) /\ s1.eeprom = eeprom
            /\ found < EE_MAX_EVENTS
                 => /\ SentOne(s1.out, OPC_WRACK)
                    /\ s1.eeprom = LearnAt(eeprom, found, msg)
                    /\ OtherEntries(s1.eeprom, found)
                         = OtherEntries(eeprom, found)

\* the table is full and the last EVLRN was refused with CMDERR(10)
C31_Witness ==
    /\ bLearn /\ TableFull(eeprom)
    /\ \A i \in 0 .. EE_MAX_EVENTS - 1 : eeprom.events[i].hdr # NoHeader
    /\ SentCmdErr(out, 10)

----------------------------------------------------------------------------
\* Claims about the accessory events (EventSpec)

\* the entries of the table that hold the event (nn, en)
Matching(e, nn, en) ==
    {i \in 0 .. EE_MAX_EVENTS - 1 :
        e.evhashtbl[i] # 0 /\ e.events[i].hdr = <<nn, en>>}

\* the node number an accessory frame is looked up with
LookupNN(msg) == IF D(msg, 0) \in ShortEventOpcodes THEN 0 ELSE FrameNN(msg)

\* C32: with a handler registered, an accessory event frame makes exactly
\* one call of a handler, with the index of the matching entry, if an entry
\* holds the event, and no call if none does; a long event is looked up by
\* the (nn, en) of the frame, a short event by (0, en) whatever its nn; with
\* both handlers registered the call goes to one of them only; the extended
\* handler receives as polarity whether the opcode is even.
C32_EventDispatch ==
    eventhandler \/ eventhandlerex =>
      \A msg \in AccessoryFrames :
        LET s1 == process_single_message(S, msg)
            hit == Matching(eeprom, LookupNN(msg), FrameEN(msg))
        IN  IF hit = {}
            THEN s1.called = << >>
            ELSE /\ Len(s1.called) = 1
                 /\ s1.called[1].index \in hit
                 /\ s1.called[1].ex = ~eventhandler
                 /\ s1.called[1].ex
                      => s1.called[1].on = (D(msg, 0) % 2 = 0)

\* the extended handler alone is registered and has been called for the
\* short event (0, 20) with polarity off and the event variable 9
C32_Witness ==
    /\ ~eventhandler /\ eventhandlerex
    /\ Len(called) = 1 /\ called[1].ex /\ ~called[1].on /\ called[1].ev = 9
    /\ eeprom.events[called[1].index].hdr = <<0, 20>>

----------------------------------------------------------------------------
\* Claims about the node variable indexes (ConfigSpec)

\* C33: NVRD and NVSET addressed to us with an index outside
\* 1 .. EE_NUM_NVS, index 0 included, read and write nothing: no NVANS and no
\* WRACK is sent and the store is left as it is.
C33_NVIndexFromOne ==
    \A msg \in FramesOf(OPC_NVRD) \cup FramesOf(OPC_NVSET) :
      LET s1 == process_single_message(S, msg)
      IN  ForUs(msg) /\ D(msg, 3) \notin 1 .. EE_NUM_NVS
            => /\ s1.eeprom = eeprom
               /\ Sent(s1.out, OPC_NVANS) = {}
               /\ Sent(s1.out, OPC_WRACK) = {}

----------------------------------------------------------------------------
\* Claims about the events of the table (LearnSpec)

\* the entries that hold an event
NonEmpty(e) == {i \in 0 .. EE_MAX_EVENTS - 1 : getEvTableEntry(e, i) # 0}

\* C34: from an empty table, after any EVLRN, EVULN and NNCLR, no two
\* entries that hold an event hold the same (nn, en); an EVLRN for an event
\* that is in the table is written to the entry that holds it and takes no
\* other entry.
C34_NoDuplicateEvents ==
    /\ \A i, j \in NonEmpty(eeprom) :
          i # j => eeprom.events[i].hdr # eeprom.events[j].hdr
    /\ bLearn =>
          \A msg \in EVLRNFrames :
            LET s1 == process_single_message(S, msg)
                found == findExistingEvent(eeprom, FrameNN(msg), FrameEN(msg))
            IN  found < EE_MAX_EVENTS
                  => /\ NonEmpty(s1.eeprom) = NonEmpty(eeprom)
                     /\ findExistingEvent(s1.eeprom, FrameNN(msg),
                                          FrameEN(msg)) = found
                     /\ getEventEVval(s1.eeprom, found, D(msg, 5)) = D(msg, 6)

\* the table holds (10, 20) and (10, 21), and (10, 20) was taught three
\* times: 119 and then 9 for variable 1, and 7 for variable 2
C34_Witness ==
    /\ NonEmpty(eeprom) = {0, 1}
    /\ eeprom.events[0].hdr = <<10, 20>> /\ eeprom.events[1].hdr = <<10, 21>>
    /\ getEventEVval(eeprom, 0, 1) = 9 /\ getEventEVval(eeprom, 0, 2) = 7
    /\ getEventEVval(eeprom, 1, 1) = 119
    /\ SentOne(out, OPC_WRACK)

----------------------------------------------------------------------------
\* Claims about the node number of a SLiM node (LeanSpec)

\* C35: from a SLiM node of node number 0, between two calls of process,
\* whatever frames, switch inputs and timeouts went before, a node that is
\* not in FLiM has node number 0.
C35_SLiMHasNoNodeNumber == pc = "idle" /\ ~FLiM => nodeNum = 0

\* the node took a node number with SNN, which started an enumeration, and
\* was sent back to SLiM with the switch before the enumeration ended: the
\* call is over, the node number is 0 and the enumeration still runs
C35_Witness ==
    /\ pc = "idle" /\ ~FLiM /\ nodeNum = 0
    /\ bCANenum /\ ~bModeChanging

====
